---------------------------- MODULE Spec2Model ----------------------------
(***************************************************************************)
(* Model of the SoundTouch AudioWorklet processor of match-my-tone         *)
(* (src/src/audio/processor.ts): the stereo sample FIFO, the rate          *)
(* transposer, the WSOLA time-stretcher, the SoundTouch combiner and the   *)
(* per-block AudioWorkletProcessor adapter.                                *)
(*                                                                         *)
(* Numbers.  A JavaScript number / Float32 sample is modelled as an exact  *)
(* rational <<n, d>> in lowest terms with d > 0; the three non-finite      *)
(* values are <<1, 0>> (+Infinity), <<-1, 0>> (-Infinity) and <<0, 0>>     *)
(* (NaN).  Rounding to Float32/Float64 precision is not modelled.          *)
(*                                                                         *)
(* Typed arrays are sequences; JavaScript indices are 0-based, so element  *)
(* i of a Float32Array a is a[i + 1] here.                                 *)
(***************************************************************************)
EXTENDS Integers, Sequences, FiniteSets, TLC

----------------------------------------------------------------------------
(* Constants & helpers                                                     *)

RENDER_QUANTUM_FRAMES == 128

CHANNELS == 2

(* const v = ...: the value v, computed once, in the rest of the block.    *)
Bind(v, Rest(_)) == Rest(v)

Bind2(v, w, Rest(_, _)) == Rest(v, w)

Bind3(u, v, w, Rest(_, _, _)) == Rest(u, v, w)

Abs(x) == IF x < 0 THEN -x ELSE x

Sign(x) == IF x < 0 THEN -1 ELSE IF x > 0 THEN 1 ELSE 0

Min(a, b) == IF a < b THEN a ELSE b

Max(a, b) == IF a > b THEN a ELSE b

RECURSIVE GCD(_, _)
GCD(a, b) == IF b = 0 THEN a ELSE GCD(b, a % b)

(* The number n/d in lowest terms; d = 0 gives +Infinity, -Infinity, NaN. *)
Q(n, d) ==
  IF d = 0 THEN <<Sign(n), 0>>
  ELSE IF d = 1 THEN <<n, 1>>
  ELSE Bind(GCD(Abs(n), d), LAMBDA g : <<n \div g, d \div g>>)

I(n) == <<n, 1>>

NaN == <<0, 0>>

PosInfinity == <<1, 0>>

NegInfinity == <<-1, 0>>

ZeroSample == <<0, 1>>

OneQ == <<1, 1>>

IsFinite(x) == x[2] # 0

IsNaN(x) == x = NaN

QAdd(a, b) ==
  IF a[2] = 0 /\ b[2] = 0
    THEN (IF a = b THEN a ELSE NaN)
    ELSE Q(a[1] * b[2] + b[1] * a[2], a[2] * b[2])

QNeg(a) == <<-a[1], a[2]>>

QSub(a, b) == QAdd(a, QNeg(b))

QMul(a, b) == Q(a[1] * b[1], a[2] * b[2])

(* a / b for b > 0 finite (the divisors of the program are rates, tempos   *)
(* and lengths, all positive).                                             *)
QDiv(a, b) == Q(a[1] * b[2], a[2] * b[1])

(* a < b; every comparison with NaN is false. *)
QLess(a, b) ==
  IF IsNaN(a) \/ IsNaN(b) THEN FALSE
  ELSE IF a[2] = 0 /\ b[2] = 0 THEN a[1] < b[1]
  ELSE a[1] * b[2] < b[1] * a[2]

QGreater(a, b) == QLess(b, a)

QAbs(a) == <<Abs(a[1]), a[2]>>

(* Math.floor and Math.ceil of a finite number. *)
QFloor(a) == a[1] \div a[2]

QCeil(a) == -((-a[1]) \div a[2])

(* Math.min(max, Math.max(min, value)) on integers. *)
clamp(value, min, max) == Min(max, Max(min, value))

(* No clamp: the value as it is. *)
QUnclamped(value, min, max) == value

(* clamp on numbers. *)
QClamp(value, min, max) ==
  Bind(IF QLess(value, min) THEN min ELSE value,
       LAMBDA lo : IF QLess(max, lo) THEN max ELSE lo)

(* FLOAT_EPSILON = 1e-10: |a - b| = n/d > 1/10^10 iff n > floor(floor(d /  *)
(* 10^5) / 10^5), n being an integer.                                      *)
FLOAT_EPSILON_ROOT == 100000

(* A change detection that finds every write significant. *)
alwaysSignificant(a, b) == TRUE

(* Numbers too wide for one integer, as digits of base WideBase, the       *)
(* lowest first: the products that compare a difference of two fractions   *)
(* with FLOAT_EPSILON.                                                     *)
WideBase == 10000

WideDigits(n) ==
  << n % WideBase, (n \div WideBase) % WideBase, n \div (WideBase * WideBase) >>

WideDigit(v, k) == IF k >= 1 /\ k <= Len(v) THEN v[k] ELSE 0

RECURSIVE WideTerm(_, _, _, _)
WideTerm(v, w, k, i) ==
  IF i = 0 THEN 0
  ELSE WideDigit(v, i) * WideDigit(w, k + 1 - i) + WideTerm(v, w, k, i - 1)

(* The product and the sum, their digits not yet carried. *)
WideProduct(v, w) == [k \in 1..(Len(v) + Len(w) - 1) |-> WideTerm(v, w, k, k)]

WideSum(v, w) ==
  [k \in 1..Max(Len(v), Len(w)) |-> WideDigit(v, k) + WideDigit(w, k)]

RECURSIVE WideCarry(_, _, _)
WideCarry(v, k, carry) ==
  IF k > Len(v) /\ carry = 0 THEN << >>
  ELSE Bind(WideDigit(v, k) + carry,
         LAMBDA digit :
           << digit % WideBase >> \o WideCarry(v, k + 1, digit \div WideBase))

(* v * 10^10 = v / FLOAT_EPSILON, for carried digits. *)
WideOverEpsilon(v) ==
  WideCarry(<< 0, 0 >> \o [k \in 1..Len(v) |-> v[k] * (FLOAT_EPSILON_ROOT \div 1000)], 1, 0)

RECURSIVE WideGreaterFrom(_, _, _)
WideGreaterFrom(v, w, k) ==
  IF k = 0 THEN FALSE
  ELSE IF WideDigit(v, k) # WideDigit(w, k) THEN WideDigit(v, k) > WideDigit(w, k)
  ELSE WideGreaterFrom(v, w, k - 1)

(* v > w, for carried digits. *)
WideGreater(v, w) == WideGreaterFrom(v, w, Max(Len(v), Len(w)))

(* Math.abs(a - b) > FLOAT_EPSILON.  For finite a = n/d and b = m/e it is  *)
(* |n * e - m * d| * 10^10 > d * e.                                        *)
hasSignificantChange(a, b) ==
  IF a[2] = 0 \/ b[2] = 0
    THEN Bind(QAbs(QSub(a, b)),
           LAMBDA diff :
             diff[1] > (diff[2] \div FLOAT_EPSILON_ROOT) \div FLOAT_EPSILON_ROOT)
    ELSE Bind3(WideCarry(WideProduct(WideDigits(Abs(a[1])), WideDigits(b[2])), 1, 0),
               WideCarry(WideProduct(WideDigits(Abs(b[1])), WideDigits(a[2])), 1, 0),
               WideCarry(WideProduct(WideDigits(a[2]), WideDigits(b[2])), 1, 0),
           LAMBDA ne, md, de :
             IF (a[1] >= 0) = (b[1] >= 0)
               THEN Bind2(WideOverEpsilon(ne), WideOverEpsilon(md),
                      LAMBDA left, right :
                        \/ WideGreater(left, WideCarry(WideSum(right, de), 1, 0))
                        \/ WideGreater(right, WideCarry(WideSum(left, de), 1, 0)))
               ELSE WideGreater(WideOverEpsilon(WideCarry(WideSum(ne, md), 1, 0)), de))

----------------------------------------------------------------------------
(* Float32Array operations                                                 *)

(* The function f on 1..n as the array (sequence) of its values. *)
ArrayOf(f) == f \o <<>>

NewFloat32Array(length) == ArrayOf([i \in 1..length |-> ZeroSample])

(* a[i] used in arithmetic: an index outside the array reads undefined,    *)
(* which arithmetic turns into NaN.                                        *)
Rd(a, i) == IF i >= 0 /\ i < Len(a) THEN a[i + 1] ELSE NaN

(* A relative index of subarray/copyWithin: negative counts from the end. *)
RelIndex(k, len) == IF k < 0 THEN Max(len + k, 0) ELSE Min(k, len)

(* a.subarray(begin, end) *)
Subarray(a, begin, end) ==
  Bind2(RelIndex(begin, Len(a)), RelIndex(end, Len(a)),
        LAMBDA b, e : IF e <= b THEN <<>> ELSE SubSeq(a, b + 1, e))

(* dst.set(src, offset), which throws a RangeError when src does not fit:  *)
(* no value is defined for that case, so TLC stops on it.                  *)
TypedArraySet(dst, src, offset) ==
  CASE offset + Len(src) <= Len(dst) ->
    SubSeq(dst, 1, offset) \o src \o SubSeq(dst, offset + Len(src) + 1, Len(dst))

(* a.copyWithin(target, start, end) *)
CopyWithin(a, target, start, end) ==
  Bind3(RelIndex(target, Len(a)), RelIndex(start, Len(a)), RelIndex(end, Len(a)),
        LAMBDA t, s, e :
          Bind(Min(e - s, Len(a) - t),
               LAMBDA count :
                 IF count <= 0 THEN a
                 ELSE SubSeq(a, 1, t) \o SubSeq(a, s + 1, s + count)
                      \o SubSeq(a, t + count + 1, Len(a))))

----------------------------------------------------------------------------
(* FIFO buffer (stereo interleaved): [vector, positionFrames, frameCount]  *)

NewFifo == [vector |-> <<>>, positionFrames |-> 0, frameCount |-> 0]

startIndex(f) == f.positionFrames * CHANNELS

endIndex(f) == (f.positionFrames + f.frameCount) * CHANNELS

FifoPut(f, numFrames) == [f EXCEPT !.frameCount = @ + numFrames]

(* receive() without the clamp. *)
FifoReceiveUnclamped(f, numFrames) ==
  [f EXCEPT !.frameCount = @ - numFrames, !.positionFrames = @ + numFrames]

(* receive() that leaves the last frame asked for in the FIFO. *)
FifoReceiveButOne(f, numFrames) ==
  Bind(clamp(numFrames - 1, 0, f.frameCount),
       LAMBDA frames :
         [f EXCEPT !.frameCount = @ - frames, !.positionFrames = @ + frames])

FifoReceive(f, numFrames) ==
  Bind(clamp(numFrames, 0, f.frameCount),
       LAMBDA frames :
         [f EXCEPT !.frameCount = @ - frames, !.positionFrames = @ + frames])

(* rewind() that resets the cursor and moves no sample. *)
FifoRewindNoCopy(f) == [f EXCEPT !.positionFrames = 0]

FifoRewind(f) ==
  IF f.positionFrames = 0 THEN f
  ELSE [f EXCEPT !.vector = CopyWithin(@, 0, startIndex(f), endIndex(f)),
                 !.positionFrames = 0]

(* ensureCapacity() that also reallocates to a smaller size when the      *)
(* frames held fit in it.                                                  *)
FifoEnsureCapacityReleasing(f, numFrames) ==
  Bind(Max(0, QCeil(QMul(numFrames, I(CHANNELS)))),
       LAMBDA minLength :
         IF Len(f.vector) # minLength /\ f.frameCount * CHANNELS <= minLength
           THEN [f EXCEPT
                   !.vector = TypedArraySet(NewFloat32Array(minLength),
                                Subarray(f.vector, startIndex(f), endIndex(f)), 0),
                   !.positionFrames = 0]
           ELSE FifoRewind(f))

(* numFrames is a number (the transposer asks for a fractional count). *)
FifoEnsureCapacity(f, numFrames) ==
  Bind(Max(0, QCeil(QMul(numFrames, I(CHANNELS)))),
       LAMBDA minLength :
         IF Len(f.vector) < minLength
           THEN [f EXCEPT
                   !.vector = TypedArraySet(NewFloat32Array(minLength),
                                Subarray(f.vector, startIndex(f), endIndex(f)), 0),
                   !.positionFrames = 0]
           ELSE FifoRewind(f))

FifoEnsureAdditionalCapacity(f, numFrames) ==
  FifoEnsureCapacity(f, QAdd(I(f.frameCount), numFrames))

FifoPutSamples(f, samples, positionFrames, numFrames) ==
  Bind2(positionFrames * CHANNELS,
        IF numFrames >= 0 THEN numFrames
        ELSE (Len(samples) - positionFrames * CHANNELS) \div CHANNELS,
        LAMBDA sourceOffset, frames :
          Bind(FifoEnsureCapacity(f, I(f.frameCount + frames)),
               LAMBDA g :
                 [g EXCEPT
                    !.vector = TypedArraySet(@,
                                 Subarray(samples, sourceOffset,
                                          sourceOffset + frames * CHANNELS),
                                 endIndex(g)),
                    !.frameCount = @ + frames]))

FifoPutBuffer(f, buffer, positionFrames, numFrames) ==
  FifoPutSamples(f, buffer.vector, buffer.positionFrames + positionFrames,
                 IF numFrames >= 0 THEN numFrames
                 ELSE buffer.frameCount - positionFrames)

(* Returns the FIFO and the caller's output array after the call. *)
FifoReceiveSamples(f, output, numFrames) ==
  Bind2(numFrames * CHANNELS, startIndex(f),
        LAMBDA numSamples, sourceOffset :
          [fifo |-> FifoReceive(f, numFrames),
           output |-> TypedArraySet(output,
                        Subarray(f.vector, sourceOffset, sourceOffset + numSamples),
                        0)])

(* Returns the caller's output array after the call. *)
FifoExtract(f, output, positionFrames, numFrames) ==
  Bind2(startIndex(f) + positionFrames * CHANNELS, numFrames * CHANNELS,
        LAMBDA sourceOffset, numSamples :
          TypedArraySet(output,
            Subarray(f.vector, sourceOffset, sourceOffset + numSamples), 0))

(* clear() that drops the frames and leaves the read cursor in place. *)
FifoClearNoRewind(f) == FifoReceive(f, f.frameCount)

FifoClear(f) == FifoRewind(FifoReceive(f, f.frameCount))

(* The frames a FIFO holds: its valid window, in order. *)
ValidWindow(f) == SubSeq(f.vector, startIndex(f) + 1, endIndex(f))

----------------------------------------------------------------------------
(* Pipes.  A pipe names its input and output FIFO by handle ("input",      *)
(* "intermediate", "output": the three FIFOs the SoundTouch object owns);  *)
(* st is the SoundTouch record and st.buf maps each handle to its FIFO.    *)

BufferNames == {"input", "intermediate", "output"}

(* RateTransposer (rate > 0). *)

NewRateTransposer ==
  [inputBuffer |-> "input", outputBuffer |-> "intermediate",
   rate |-> OneQ, slopeCount |-> I(0),
   prevSampleL |-> ZeroSample, prevSampleR |-> ZeroSample,
   readMin |-> 0, readOver |-> 0]

(* An interpolation that takes the later sample whatever the phase. *)
InterpolateLater(slopeCount, a, b) == b

(* (1.0 - slopeCount) * a + slopeCount * b *)
Interpolate(slopeCount, a, b) ==
  QAdd(QMul(QSub(OneQ, slopeCount), a), QMul(slopeCount, b))

(* The interpolated frame between the frames a and b: left, right. *)
InterpolateFrame(slopeCount, a, b) ==
  ArrayOf([c \in 1..CHANNELS |-> Interpolate(slopeCount, a[c], b[c])])

(* The first loop interpolating from silence: the last frame of the block  *)
(* before is forgotten.                                                    *)
TransposeFirstPassFromSilence(tr, src, srcOffset, lp) ==
  IF QLess(lp.slopeCount, OneQ)
    THEN [slopeCount |-> QAdd(lp.slopeCount, tr.rate),
          outs |-> lp.outs \o
            InterpolateFrame(lp.slopeCount,
              << ZeroSample, ZeroSample >>,
              << Rd(src, srcOffset), Rd(src, srcOffset + 1) >>)]
    ELSE lp

(* One pass of the first loop of transpose(): while (slopeCount < 1.0),    *)
(* interpolation from prevSample.  lp is [slopeCount, outs], outs the      *)
(* samples written so far, in order; a pass after the loop's end changes   *)
(* nothing.                                                                *)
TransposeFirstPass(tr, src, srcOffset, lp) ==
  IF QLess(lp.slopeCount, OneQ)
    THEN [slopeCount |-> QAdd(lp.slopeCount, tr.rate),
          outs |-> lp.outs \o
            InterpolateFrame(lp.slopeCount,
              << tr.prevSampleL, tr.prevSampleR >>,
              << Rd(src, srcOffset), Rd(src, srcOffset + 1) >>)]
    ELSE lp

(* n passes of the first loop, one after the other: half of them, and the  *)
(* other half unless the loop has ended.                                   *)
RECURSIVE TransposeFirstPasses(_, _, _, _, _)
TransposeFirstPasses(tr, src, srcOffset, lp, n) ==
  IF n <= 1 THEN TransposeFirstPass(tr, src, srcOffset, lp)
  ELSE Bind(TransposeFirstPasses(tr, src, srcOffset, lp, n \div 2),
            LAMBDA half :
              IF ~QLess(half.slopeCount, OneQ) THEN half
              ELSE TransposeFirstPasses(tr, src, srcOffset, half, n - n \div 2))

(* The inner loop: while (slopeCount > 1.0) { slopeCount -= 1.0; used++;   *)
(* if (used >= numFrames - 1) break outer; }                               *)
RECURSIVE TransposeSkip(_, _, _)
TransposeSkip(slopeCount, used, numFrames) ==
  IF QGreater(slopeCount, OneQ)
    THEN IF used + 1 >= numFrames - 1
           THEN [slopeCount |-> QSub(slopeCount, OneQ), used |-> used + 1, brk |-> TRUE]
           ELSE TransposeSkip(QSub(slopeCount, OneQ), used + 1, numFrames)
    ELSE [slopeCount |-> slopeCount, used |-> used, brk |-> FALSE]

(* One pass of the outer loop: interpolation between src[used] and         *)
(* src[used + 1].  lp is [slopeCount, used, outs, maxRead, brk]; a pass    *)
(* after the break changes nothing.                                        *)
TransposeRestPass(tr, src, srcOffset, numFrames, lp) ==
  IF lp.brk THEN lp
  ELSE Bind(TransposeSkip(lp.slopeCount, lp.used, numFrames),
            LAMBDA sk :
              IF sk.brk
                THEN [lp EXCEPT !.slopeCount = sk.slopeCount, !.used = sk.used,
                                !.brk = TRUE]
                ELSE Bind(srcOffset + CHANNELS * sk.used,
                          LAMBDA srcIndex :
                            [slopeCount |-> QAdd(sk.slopeCount, tr.rate),
                             used |-> sk.used,
                             maxRead |-> Max(lp.maxRead, sk.used + 1),
                             brk |-> FALSE,
                             outs |-> lp.outs \o
                               InterpolateFrame(sk.slopeCount,
                                 << Rd(src, srcIndex), Rd(src, srcIndex + 1) >>,
                                 << Rd(src, srcIndex + 2), Rd(src, srcIndex + 3) >>)]))

(* n passes of the outer loop, one after the other: half of them, and the  *)
(* other half unless the loop has ended.                                   *)
RECURSIVE TransposeRestPasses(_, _, _, _, _, _)
TransposeRestPasses(tr, src, srcOffset, numFrames, lp, n) ==
  IF n <= 1 THEN TransposeRestPass(tr, src, srcOffset, numFrames, lp)
  ELSE Bind(TransposeRestPasses(tr, src, srcOffset, numFrames, lp, n \div 2),
            LAMBDA half :
              IF half.brk THEN half
              ELSE TransposeRestPasses(tr, src, srcOffset, numFrames, half,
                                       n - n \div 2))

(* More passes than either loop of transpose(numFrames) makes: slopeCount  *)
(* grows by rate each pass and the input frame used by one for each unit   *)
(* of slopeCount.                                                          *)
TransposePasses(tr, numFrames) ==
  QCeil(QDiv(I(numFrames + 1), tr.rate)) + 2

(* The samples dest holds after the stores dest[destOffset + k] = outs[k]; *)
(* a store outside dest is ignored.                                        *)
WrBlock(dest, destOffset, outs) ==
  Bind(Min(destOffset, Len(dest)),
       LAMBDA at :
         Bind(Min(Len(outs), Len(dest) - at),
              LAMBDA fit :
                SubSeq(dest, 1, at) \o SubSeq(outs, 1, fit)
                \o SubSeq(dest, at + fit + 1, Len(dest))))

(* transpose(numFrames), numFrames >= 1: [dest, outFrames, slopeCount,     *)
(* prevSampleL, prevSampleR, maxRead]; maxRead is the highest input frame  *)
(* (from the read cursor) it read.  Both loops have run to their end: no   *)
(* value is defined otherwise.                                             *)
Transpose(tr, inB, outB, numFrames) ==
  Bind3(inB.vector, startIndex(inB), TransposePasses(tr, numFrames),
    LAMBDA src, srcOffset, passes :
      Bind(TransposeFirstPasses(tr, src, srcOffset,
             [slopeCount |-> tr.slopeCount, outs |-> <<>>], passes),
        LAMBDA first :
          Bind([slopeCount |-> QSub(first.slopeCount, OneQ), used |-> 0,
                maxRead |-> 0, brk |-> FALSE, outs |-> first.outs],
            LAMBDA afterFirst :
              Bind(IF numFrames # 1
                     THEN TransposeRestPasses(tr, src, srcOffset, numFrames,
                                              afterFirst, passes)
                     ELSE [afterFirst EXCEPT !.brk = TRUE],
                LAMBDA rest :
                  CASE ~QLess(first.slopeCount, OneQ) /\ rest.brk ->
                    [dest |-> WrBlock(outB.vector, endIndex(outB), rest.outs),
                     outFrames |-> Len(rest.outs) \div CHANNELS,
                     slopeCount |-> rest.slopeCount,
                     prevSampleL |-> Rd(src, srcOffset + CHANNELS * numFrames - 2),
                     prevSampleR |-> Rd(src, srcOffset + CHANNELS * numFrames - 1),
                     maxRead |-> Max(rest.maxRead, numFrames - 1)]))))

(* A reservation without the frame interpolated from prevSample. *)
TransposerReserveExact(numFrames, rate) == QDiv(I(numFrames), rate)

(* The capacity RateTransposer.process() reserves in its output FIFO. *)
TransposerReserve(numFrames, rate) == QAdd(QDiv(I(numFrames), rate), OneQ)

TransposerProcess(st) ==
  Bind3(st.transposer, st.buf[st.transposer.inputBuffer],
        st.buf[st.transposer.inputBuffer].frameCount,
    LAMBDA tr, inB, numFrames :
      IF numFrames = 0 THEN st
      ELSE Bind(FifoEnsureAdditionalCapacity(st.buf[tr.outputBuffer],
                  TransposerReserve(numFrames, tr.rate)),
             LAMBDA outB :
               Bind(Transpose(tr, inB, outB, numFrames),
                 LAMBDA t :
                   [st EXCEPT
                      !.buf = [@ EXCEPT
                                 ![tr.inputBuffer] = FifoReceive(inB, numFrames),
                                 ![tr.outputBuffer] =
                                   FifoPut([outB EXCEPT !.vector = t.dest],
                                           t.outFrames)],
                      !.transposer = [@ EXCEPT
                                        !.slopeCount = t.slopeCount,
                                        !.prevSampleL = t.prevSampleL,
                                        !.prevSampleR = t.prevSampleR,
                                        !.readOver =
                                          Max(@, t.maxRead - numFrames + 1)]])))

----------------------------------------------------------------------------
(* Stretch configuration (time-stretch)                                    *)

DEFAULT_SEQUENCE_MS == 0

DEFAULT_SEEKWINDOW_MS == 0

DEFAULT_OVERLAP_MS == 8

SCAN_OFFSETS ==
  << << 124, 186, 248, 310, 372, 434, 496, 558, 620, 682, 744, 806, 868, 930,
        992, 1054, 1116, 1178, 1240, 1302, 1364, 1426, 1488, 0 >>,
     << -100, -75, -50, -25, 25, 50, 75, 100, 0, 0, 0, 0, 0, 0, 0, 0, 0, 0, 0,
        0, 0, 0, 0, 0 >>,
     << -20, -15, -10, -5, 5, 10, 15, 20, 0, 0, 0, 0, 0, 0, 0, 0, 0, 0, 0, 0,
        0, 0, 0, 0 >>,
     << -4, -3, -2, -1, 1, 2, 3, 4, 0, 0, 0, 0, 0, 0, 0, 0, 0, 0, 0, 0, 0, 0,
        0, 0 >> >>

AUTOSEQ_TEMPO_LOW == <<1, 4>>

AUTOSEQ_TEMPO_TOP == <<4, 1>>

AUTOSEQ_AT_MIN == <<125, 1>>

AUTOSEQ_AT_MAX == <<50, 1>>

AUTOSEQ_K ==
  QDiv(QSub(AUTOSEQ_AT_MAX, AUTOSEQ_AT_MIN), QSub(AUTOSEQ_TEMPO_TOP, AUTOSEQ_TEMPO_LOW))

AUTOSEQ_C == QSub(AUTOSEQ_AT_MIN, QMul(AUTOSEQ_K, AUTOSEQ_TEMPO_LOW))

AUTOSEEK_AT_MIN == <<25, 1>>

AUTOSEEK_AT_MAX == <<15, 1>>

AUTOSEEK_K ==
  QDiv(QSub(AUTOSEEK_AT_MAX, AUTOSEEK_AT_MIN), QSub(AUTOSEQ_TEMPO_TOP, AUTOSEQ_TEMPO_LOW))

AUTOSEEK_C == QSub(AUTOSEEK_AT_MIN, QMul(AUTOSEEK_K, AUTOSEQ_TEMPO_LOW))

HalfQ == <<1, 2>>

(* x % m for numbers x >= 0, m > 0. *)
QMod(x, m) == QSub(x, QMul(m, I(QFloor(QDiv(x, m)))))

(* An overlap length that is floored to a whole frame, not to a multiple   *)
(* of 8.                                                                   *)
OverlapLengthUnaligned(sampleRate, overlapInMs) ==
  Bind(Q(sampleRate * overlapInMs, 1000),
    LAMBDA raw : QFloor(IF QLess(raw, I(16)) THEN I(16) ELSE raw))

(* calculateOverlapLength(overlapInMs): the new overlapLength. *)
OverlapLengthOf(sampleRate, overlapInMs) ==
  Bind(Q(sampleRate * overlapInMs, 1000),
    LAMBDA raw :
      Bind(IF QLess(raw, I(16)) THEN I(16) ELSE raw,
        LAMBDA newOvl : QFloor(QSub(newOvl, QMod(newOvl, I(8))))))

calculateOverlapLength(s, overlapInMs) ==
  Bind(OverlapLengthOf(s.sampleRate, overlapInMs),
    LAMBDA ovl :
      [s EXCEPT !.overlapLength = ovl,
                !.refMidBuffer = NewFloat32Array(ovl * CHANNELS),
                !.midBuffer = NewFloat32Array(ovl * CHANNELS)])

calculateSequenceParameters(s) ==
  Bind2(IF s.autoSeqSetting
          THEN QFloor(QAdd(QClamp(QAdd(AUTOSEQ_C, QMul(AUTOSEQ_K, s.tempo)),
                                  AUTOSEQ_AT_MAX, AUTOSEQ_AT_MIN), HalfQ))
          ELSE s.sequenceMs,
        IF s.autoSeekSetting
          THEN QFloor(QAdd(QClamp(QAdd(AUTOSEEK_C, QMul(AUTOSEEK_K, s.tempo)),
                                  AUTOSEEK_AT_MAX, AUTOSEEK_AT_MIN), HalfQ))
          ELSE s.seekWindowMs,
    LAMBDA sequenceMs, seekWindowMs :
      [s EXCEPT !.sequenceMs = sequenceMs,
                !.seekWindowMs = seekWindowMs,
                !.seekWindowLength = (s.sampleRate * sequenceMs) \div 1000,
                !.seekLength = (s.sampleRate * seekWindowMs) \div 1000])

(* The tempo setter with a sampleReq that leaves the skip out. *)
StretchSetTempoWithoutSkip(s, newTempo) ==
  Bind(calculateSequenceParameters([s EXCEPT !.tempo = newTempo]),
    LAMBDA c :
      Bind(QMul(c.tempo, I(c.seekWindowLength - c.overlapLength)),
        LAMBDA nominalSkip :
          Bind(0,
            LAMBDA intSkip :
              [c EXCEPT !.nominalSkip = nominalSkip,
                        !.skipFract = I(0),
                        !.tempoWrites = @ + 1,
                        !.iterationsSinceTempo = 0,
                        !.advancedSinceTempo = 0,
                        !.sampleReq =
                          Max(intSkip + c.overlapLength, c.seekWindowLength)
                          + c.seekLength])))

(* set tempo(newTempo) *)
StretchSetTempo(s, newTempo) ==
  Bind(calculateSequenceParameters([s EXCEPT !.tempo = newTempo]),
    LAMBDA c :
      Bind(QMul(c.tempo, I(c.seekWindowLength - c.overlapLength)),
        LAMBDA nominalSkip :
          Bind(QFloor(QAdd(nominalSkip, HalfQ)),
            LAMBDA intSkip :
              [c EXCEPT !.nominalSkip = nominalSkip,
                        !.skipFract = I(0),
                        !.tempoWrites = @ + 1,
                        !.iterationsSinceTempo = 0,
                        !.advancedSinceTempo = 0,
                        !.sampleReq =
                          Max(intSkip + c.overlapLength, c.seekWindowLength)
                          + c.seekLength])))

StretchSetParameters(s, sampleRate, sequenceMs, seekWindowMs, overlapMs) ==
  Bind(calculateSequenceParameters(
         [s EXCEPT
            !.sampleRate = IF sampleRate > 0 THEN sampleRate ELSE @,
            !.overlapMs = IF overlapMs > 0 THEN overlapMs ELSE @,
            !.sequenceMs = IF sequenceMs > 0 THEN sequenceMs ELSE @,
            !.autoSeqSetting = ~(sequenceMs > 0),
            !.seekWindowMs = IF seekWindowMs > 0 THEN seekWindowMs ELSE @,
            !.autoSeekSetting = ~(seekWindowMs > 0)]),
    LAMBDA b :
      Bind(calculateOverlapLength(b, b.overlapMs),
        LAMBDA c :
          [StretchSetTempo(c, c.tempo) EXCEPT !.midBufferInitialized = FALSE,
                                              !.primings = 0]))

(* The fields of a Stretch before its constructor runs setParameters. *)
StretchFields(sampleRate) ==
  [inputBuffer |-> "intermediate", outputBuffer |-> "output",
   quickSeek |-> TRUE,
   sampleRate |-> sampleRate,
   overlapMs |-> DEFAULT_OVERLAP_MS,
   sequenceMs |-> DEFAULT_SEQUENCE_MS,
   seekWindowMs |-> DEFAULT_SEEKWINDOW_MS,
   autoSeqSetting |-> TRUE, autoSeekSetting |-> TRUE,
   overlapLength |-> 0, seekWindowLength |-> 0, seekLength |-> 0,
   nominalSkip |-> I(0), skipFract |-> I(0), sampleReq |-> 0,
   tempo |-> OneQ,
   midBuffer |-> <<>>, refMidBuffer |-> <<>>,
   midBufferInitialized |-> FALSE,
   primings |-> 0, iterations |-> 0,
   lastOffset |-> 0, minCandidate |-> 0, maxCandidate |-> 0,
   readMin |-> 0, readOver |-> 0,
   tempoWrites |-> 0, log |-> <<>>,
   iterationsSinceTempo |-> 0, advancedSinceTempo |-> 0]

NewStretch(sampleRate) ==
  StretchSetParameters(StretchFields(sampleRate), sampleRate,
    DEFAULT_SEQUENCE_MS, DEFAULT_SEEKWINDOW_MS, DEFAULT_OVERLAP_MS)

----------------------------------------------------------------------------
(* The best-offset search.  A search is a record k: [scanPass, j,          *)
(* bestOffset, correlationOffset, tempOffset, done]; when ~k.done the      *)
(* search stands before the evaluation of the cross-correlation at         *)
(* candidate offset k.tempOffset.                                          *)

(* seekBestOverlapPositionStereoQuick: the loop control from (scanPass, j) *)
(* up to the next candidate whose correlation is evaluated, or to the end  *)
(* of the fourth pass.                                                     *)
RECURSIVE QuickSeekAdvance(_, _)
QuickSeekAdvance(k, seekLength) ==
  IF k.scanPass >= 4 THEN [k EXCEPT !.done = TRUE]
  ELSE Bind(SCAN_OFFSETS[k.scanPass + 1][k.j + 1],
         LAMBDA delta :
           IF delta = 0 \/ k.correlationOffset + delta >= seekLength
             THEN QuickSeekAdvance([k EXCEPT !.scanPass = @ + 1, !.j = 0,
                                             !.correlationOffset = k.bestOffset],
                                   seekLength)
             ELSE [k EXCEPT !.tempOffset = k.correlationOffset + delta])

QuickSeekStart(seekLength) ==
  QuickSeekAdvance([scanPass |-> 0, j |-> 0, bestOffset |-> 0,
                    correlationOffset |-> 0, tempOffset |-> 0, done |-> FALSE],
                   seekLength)

(* The candidate k.tempOffset has been evaluated; better is the outcome of *)
(* correlation > bestCorrelation.                                          *)
QuickSeekEvaluated(k, better, seekLength) ==
  QuickSeekAdvance([k EXCEPT !.bestOffset = IF better THEN k.tempOffset ELSE @,
                             !.j = @ + 1],
                   seekLength)

(* seekBestOverlapPositionStereo: the linear scan, j the candidate offset. *)
LinearSeekAdvance(k, seekLength) ==
  IF k.j < seekLength THEN [k EXCEPT !.tempOffset = k.j]
  ELSE [k EXCEPT !.done = TRUE]

LinearSeekStart(seekLength) ==
  LinearSeekAdvance([scanPass |-> 0, j |-> 0, bestOffset |-> 0,
                     correlationOffset |-> 0, tempOffset |-> 0, done |-> FALSE],
                    seekLength)

LinearSeekEvaluated(k, better, seekLength) ==
  LinearSeekAdvance([k EXCEPT !.bestOffset = IF better THEN k.tempOffset ELSE @,
                              !.j = @ + 1],
                    seekLength)

SeekStart(quick, seekLength) ==
  IF quick THEN QuickSeekStart(seekLength) ELSE LinearSeekStart(seekLength)

SeekEvaluated(quick, k, better, seekLength) ==
  IF quick THEN QuickSeekEvaluated(k, better, seekLength)
  ELSE LinearSeekEvaluated(k, better, seekLength)

(* preCalculateCorrelationReferenceStereo: the new refMidBuffer. *)
preCalculateCorrelationReferenceStereo(s) ==
  ArrayOf([idx \in 1..Len(s.refMidBuffer) |->
     LET i == (idx - 1) \div CHANNELS
     IN IF i < s.overlapLength
          THEN QMul(s.midBuffer[idx], I(i * (s.overlapLength - i)))
          ELSE s.refMidBuffer[idx]])

(* calculateCrossCorrelationStereo: the sum the loop accumulates over the  *)
(* sample indices i = from, from + 2, ... below to.  Numbers being exact   *)
(* here, the sum does not depend on the order of the additions, and it is  *)
(* taken by halves.                                                        *)
RECURSIVE CrossCorrelationSum(_, _, _, _, _)
CrossCorrelationSum(mixing, mixingPosition, compare, from, to) ==
  IF to <= from THEN I(0)
  ELSE IF to - from <= CHANNELS
    THEN QAdd(QMul(Rd(mixing, mixingPosition + from), Rd(compare, from)),
              QMul(Rd(mixing, mixingPosition + from + 1), Rd(compare, from + 1)))
    ELSE LET middle == from + CHANNELS * (((to - from) \div CHANNELS) \div 2)
         IN QAdd(CrossCorrelationSum(mixing, mixingPosition, compare, from, middle),
                 CrossCorrelationSum(mixing, mixingPosition, compare, middle, to))

calculateCrossCorrelationStereo(s, inB, offsetFrames, compare) ==
  CrossCorrelationSum(inB.vector, startIndex(inB) + CHANNELS * offsetFrames,
    compare, 2, CHANNELS * s.overlapLength)

(* The frames, counted from the read cursor, the correlation at            *)
(* offsetFrames reads: i runs from 2 to CHANNELS * overlapLength - 1.      *)
CorrelationFirstFrame(offsetFrames) == offsetFrames + 2 \div CHANNELS

CorrelationLastFrame(s, offsetFrames) == offsetFrames + s.overlapLength - 1

(* One evaluation of the search with the correlations of the input: r is  *)
(* [k, bestCorrelation, minCandidate, maxCandidate, evaluated]; after the  *)
(* search's end it changes nothing.                                        *)
SeekPass(s, inB, compare, r) ==
  IF r.k.done THEN r
  ELSE Bind(calculateCrossCorrelationStereo(s, inB, r.k.tempOffset, compare),
         LAMBDA correlation :
           Bind(QGreater(correlation, r.bestCorrelation),
             LAMBDA better :
               [k |-> SeekEvaluated(s.quickSeek, r.k, better, s.seekLength),
                bestCorrelation |-> IF better THEN correlation
                                    ELSE r.bestCorrelation,
                minCandidate |-> IF r.evaluated = 0 THEN r.k.tempOffset
                                 ELSE Min(r.minCandidate, r.k.tempOffset),
                maxCandidate |-> IF r.evaluated = 0 THEN r.k.tempOffset
                                 ELSE Max(r.maxCandidate, r.k.tempOffset),
                evaluated |-> r.evaluated + 1]))

(* n evaluations, one after the other: half of them, and the other half    *)
(* unless the search has ended.                                            *)
RECURSIVE SeekPasses(_, _, _, _, _)
SeekPasses(s, inB, compare, r, n) ==
  IF n <= 1 THEN SeekPass(s, inB, compare, r)
  ELSE Bind(SeekPasses(s, inB, compare, r, n \div 2),
         LAMBDA half :
           IF half.k.done THEN half
           ELSE SeekPasses(s, inB, compare, half, n - n \div 2))

(* More evaluations than a search makes: the quick scan has 4 passes of 24 *)
(* offsets, the linear scan seekLength candidates.                         *)
SeekEvaluations(s) == Max(4 * 24, s.seekLength) + 1

(* The search run to its end: no value is defined otherwise. *)
SeekRun(s, inB, compare, r) ==
  Bind(SeekPasses(s, inB, compare, r, SeekEvaluations(s)),
       LAMBDA e : CASE e.k.done -> e)

(* seekBestOverlapPosition(): [offset, refMidBuffer, minCandidate,         *)
(* maxCandidate, evaluated].                                               *)
seekBestOverlapPosition(s, inB) ==
  Bind(preCalculateCorrelationReferenceStereo(s),
    LAMBDA ref :
      Bind(SeekRun(s, inB, ref,
             [k |-> SeekStart(s.quickSeek, s.seekLength),
              bestCorrelation |-> NegInfinity,
              minCandidate |-> 0, maxCandidate |-> 0, evaluated |-> 0]),
        LAMBDA r :
          [offset |-> r.k.bestOffset, refMidBuffer |-> ref,
           minCandidate |-> r.minCandidate, maxCandidate |-> r.maxCandidate,
           evaluated |-> r.evaluated]))

(* overlap(offsetFrames): the samples stored from outputBuffer.endIndex. *)
OverlapSamples(s, inB, offsetFrames) ==
  Bind2(startIndex(inB) + CHANNELS * offsetFrames, Q(1, s.overlapLength),
    LAMBDA inputPosition, frameScale :
      ArrayOf([idx \in 1..(CHANNELS * s.overlapLength) |->
        LET i == (idx - 1) \div CHANNELS
            fadeOut == QMul(I(s.overlapLength - i), frameScale)
            fadeIn == QMul(I(i), frameScale)
        IN QAdd(QMul(Rd(inB.vector, inputPosition + idx - 1), fadeIn),
                QMul(s.midBuffer[idx], fadeOut))]))

----------------------------------------------------------------------------
(* Stretch.process()                                                       *)

(* A priming branch that fills midBuffer and leaves the flag unset. *)
StretchPrimeForgetful(st) ==
  Bind(FifoReceiveSamples(st.buf[st.stretch.inputBuffer], st.stretch.midBuffer,
                          st.stretch.overlapLength),
    LAMBDA r :
      [st EXCEPT !.buf = [@ EXCEPT ![st.stretch.inputBuffer] = r.fifo],
                 !.stretch = [@ EXCEPT !.midBuffer = r.output,
                                       !.primings = @ + 1]])

(* The priming branch: the Stretcher after it, when it is not primed yet   *)
(* and the input holds at least overlapLength frames.                      *)
StretchPrime(st) ==
  Bind(FifoReceiveSamples(st.buf[st.stretch.inputBuffer], st.stretch.midBuffer,
                          st.stretch.overlapLength),
    LAMBDA r :
      [st EXCEPT !.buf = [@ EXCEPT ![st.stretch.inputBuffer] = r.fifo],
                 !.stretch = [@ EXCEPT !.midBuffer = r.output,
                                       !.midBufferInitialized = TRUE,
                                       !.primings = @ + 1]])

(* The lowest of the input frames, counted from the read cursor, that one  *)
(* iteration reads: the overlap-add window at offset, the new midBuffer,   *)
(* the correlation windows and the copied middle.                          *)
LowestFrameRead(s, sk, nonOverlap) ==
  Bind({sk.offset, sk.offset + s.seekWindowLength - s.overlapLength}
       \cup (IF sk.evaluated > 0
               THEN {CorrelationFirstFrame(sk.minCandidate)} ELSE {})
       \cup (IF nonOverlap > 0 THEN {sk.offset + s.overlapLength} ELSE {}),
       LAMBDA lows : CHOOSE x \in lows : \A y \in lows : x <= y)

(* The highest of them. *)
HighestFrameRead(s, sk, nonOverlap) ==
  Bind({sk.offset + s.overlapLength - 1, sk.offset + s.seekWindowLength - 1}
       \cup (IF sk.evaluated > 0
               THEN {CorrelationLastFrame(s, sk.maxCandidate)} ELSE {})
       \cup (IF nonOverlap > 0
               THEN {sk.offset + s.overlapLength + nonOverlap - 1} ELSE {}),
       LAMBDA highs : CHOOSE x \in highs : \A y \in highs : x >= y)

(* 1) overlap-add of overlapLength frames at offset, 2) copy of the middle: *)
(* the output FIFO after them.                                             *)
StretchOutput(s, inB, outB, offset, nonOverlap) ==
  Bind(FifoEnsureAdditionalCapacity(outB, I(s.overlapLength)),
    LAMBDA out1 :
      Bind(FifoPut([out1 EXCEPT !.vector =
                      WrBlock(@, endIndex(out1), OverlapSamples(s, inB, offset))],
                   s.overlapLength),
        LAMBDA out2 :
          IF nonOverlap > 0
            THEN FifoPutBuffer(out2, inB, offset + s.overlapLength, nonOverlap)
            ELSE out2))

(* 3) the new midBuffer: the last overlap of the window at offset. *)
StretchMidBuffer(s, inB, offset) ==
  Bind(startIndex(inB) + CHANNELS * (offset + s.seekWindowLength - s.overlapLength),
    LAMBDA start :
      TypedArraySet(s.midBuffer,
        Subarray(inB.vector, start, start + CHANNELS * s.overlapLength), 0))

(* The record of one iteration, kept in the log of the Stretch: the offset  *)
(* chosen, the cursors of the two FIFOs when the iteration began, the      *)
(* frames the input held, nominalSkip and skipFract as the iteration found *)
(* them, the overlapSkip computed, the frames the read cursor moved by and *)
(* the skipFract left.  epoch counts the tempo writes made before.         *)
IterationRecord(s, inB, outB, offset, overlapSkip, inAfter, skipAfter) ==
  [epoch |-> s.tempoWrites, offset |-> offset,
   inPosition |-> inB.positionFrames, inCount |-> inB.frameCount,
   outCount |-> outB.frameCount,
   nominalSkip |-> s.nominalSkip, skipBefore |-> s.skipFract,
   overlapSkip |-> overlapSkip,
   advanced |-> inAfter.positionFrames - inB.positionFrames,
   skipAfter |-> skipAfter]

(* overlapSkip that rounds to the nearest integer. *)
OverlapSkipRounded(skipFract) == QFloor(QAdd(skipFract, HalfQ))

(* The whole frames of the skip accumulated: Math.floor(this.skipFract). *)
OverlapSkip(skipFract) == QFloor(skipFract)

(* One iteration of the while loop of process(). *)
StretchIteration(st) ==
  Bind3(st.stretch, st.buf[st.stretch.inputBuffer],
        st.stretch.seekWindowLength - 2 * st.stretch.overlapLength,
    LAMBDA s, inB, nonOverlap :
      Bind2(seekBestOverlapPosition(s, inB), QAdd(s.skipFract, s.nominalSkip),
        LAMBDA sk, sum :
          (* 4) advance in input according to tempo *)
          Bind(OverlapSkip(sum),
            LAMBDA overlapSkip :
          Bind2(FifoReceive(inB, overlapSkip), QSub(sum, I(overlapSkip)),
            LAMBDA inAfter, skipAfter :
              [st EXCEPT
                 !.buf = [@ EXCEPT
                            ![s.outputBuffer] =
                              StretchOutput(s, inB, @, sk.offset, nonOverlap),
                            ![s.inputBuffer] = inAfter],
                 !.stretch = [@ EXCEPT
                                !.refMidBuffer = sk.refMidBuffer,
                                !.midBuffer = StretchMidBuffer(s, inB, sk.offset),
                                !.skipFract = skipAfter,
                                !.iterations = @ + 1,
                                !.iterationsSinceTempo = @ + 1,
                                !.advancedSinceTempo =
                                  @ + inAfter.positionFrames - inB.positionFrames,
                                !.lastOffset = sk.offset,
                                !.minCandidate = IF sk.evaluated > 0
                                                   THEN Min(@, sk.minCandidate) ELSE @,
                                !.maxCandidate = IF sk.evaluated > 0
                                                   THEN Max(@, sk.maxCandidate) ELSE @,
                                !.readMin =
                                  Min(@, LowestFrameRead(s, sk, nonOverlap)),
                                !.readOver =
                                  Max(@, HighestFrameRead(s, sk, nonOverlap)
                                         - inB.frameCount + 1),
                                !.log =
                                  Append(@, IterationRecord(s, inB,
                                    st.buf[s.outputBuffer], sk.offset,
                                    overlapSkip, inAfter, skipAfter))]]))))

(* A while loop that is left before its first iteration. *)
StretchLoopLeft(st) == st

RECURSIVE StretchLoop(_)
StretchLoop(st) ==
  IF st.buf[st.stretch.inputBuffer].frameCount >= st.stretch.sampleReq
    THEN StretchLoop(StretchIteration(st))
    ELSE st

StretchProcess(st) ==
  IF /\ ~st.stretch.midBufferInitialized
     /\ st.buf[st.stretch.inputBuffer].frameCount < st.stretch.overlapLength
    THEN st
    ELSE StretchLoop(IF ~st.stretch.midBufferInitialized
                       THEN StretchPrime(st) ELSE st)

(* Stretch.clear(): AbstractFifoSamplePipe.clear(), then the flag. *)
StretchClear(st) ==
  LET s == st.stretch
      a == [st.buf EXCEPT ![s.inputBuffer] = FifoClear(@)]
      b == [a EXCEPT ![s.outputBuffer] = FifoClear(@)]
  IN [st EXCEPT !.buf = b,
                !.stretch = [@ EXCEPT !.midBufferInitialized = FALSE,
                                      !.primings = 0]]

(* RateTransposer.clear() is AbstractFifoSamplePipe.clear(). *)
TransposerClear(st) ==
  LET t == st.transposer
      a == [st.buf EXCEPT ![t.inputBuffer] = FifoClear(@)]
  IN [st EXCEPT !.buf = [a EXCEPT ![t.outputBuffer] = FifoClear(@)]]

----------------------------------------------------------------------------
(* SoundTouch: combines Stretch + RateTransposer.                          *)

(* The reconnection of the pipes' FIFOs by direction: rate > 1 gives       *)
(* stretch -> transposer.                                                  *)
(* A reconnection made once, at construction, and never again. *)
ReconnectOnce(st, stretchFirst) ==
  IF st.stretch.outputBuffer # "own" THEN st
  ELSE IF stretchFirst
    THEN [st EXCEPT !.stretch.inputBuffer = "input",
                    !.stretch.outputBuffer = "intermediate",
                    !.transposer.inputBuffer = "intermediate",
                    !.transposer.outputBuffer = "output"]
    ELSE [st EXCEPT !.transposer.inputBuffer = "input",
                    !.transposer.outputBuffer = "intermediate",
                    !.stretch.inputBuffer = "intermediate",
                    !.stretch.outputBuffer = "output"]

Reconnect(st, stretchFirst) ==
  IF stretchFirst
    THEN IF st.transposer.outputBuffer # "output"
           THEN [st EXCEPT !.stretch.inputBuffer = "input",
                           !.stretch.outputBuffer = "intermediate",
                           !.transposer.inputBuffer = "intermediate",
                           !.transposer.outputBuffer = "output"]
           ELSE st
    ELSE IF st.stretch.outputBuffer # "output"
           THEN [st EXCEPT !.transposer.inputBuffer = "input",
                           !.transposer.outputBuffer = "intermediate",
                           !.stretch.inputBuffer = "intermediate",
                           !.stretch.outputBuffer = "output"]
           ELSE st

(* Effective values in which the pitch sets the rate and leaves the tempo  *)
(* to the tempo parameter alone.                                           *)
calculateRateWithoutTempo(st) ==
  Bind2(st.virtualTempo, QMul(st.virtualRate, st.virtualPitch),
    LAMBDA tempo, rate :
      Reconnect(
        [st EXCEPT
           !.tempo = tempo,
           !.rate = rate,
           !.stretch = IF hasSignificantChange(tempo, st.tempo)
                         THEN StretchSetTempo(@, tempo) ELSE @,
           !.transposer = IF hasSignificantChange(rate, st.rate)
                            THEN [@ EXCEPT !.rate = rate] ELSE @],
        QGreater(rate, OneQ)))

calculateEffectiveRateAndTempo(st) ==
  Bind2(QDiv(st.virtualTempo, st.virtualPitch), QMul(st.virtualRate, st.virtualPitch),
    LAMBDA tempo, rate :
      Reconnect(
        [st EXCEPT
           !.tempo = tempo,
           !.rate = rate,
           !.stretch = IF hasSignificantChange(tempo, st.tempo)
                         THEN StretchSetTempo(@, tempo) ELSE @,
           !.transposer = IF hasSignificantChange(rate, st.rate)
                            THEN [@ EXCEPT !.rate = rate] ELSE @],
        QGreater(rate, OneQ)))

(* new SoundTouch(sampleRate).  The pipes are constructed with FIFOs of    *)
(* their own, which the constructor's calculateEffectiveRateAndTempo()     *)
(* replaces by the three FIFOs of the SoundTouch: the handles "own" stand  *)
(* for the discarded ones.                                                 *)
NewSoundTouch(sampleRate) ==
  calculateEffectiveRateAndTempo(
    [buf |-> [b \in BufferNames |-> NewFifo],
     transposer |-> [NewRateTransposer EXCEPT !.inputBuffer = "own",
                                              !.outputBuffer = "own"],
     stretch |-> [NewStretch(sampleRate) EXCEPT !.inputBuffer = "own",
                                                !.outputBuffer = "own"],
     rate |-> OneQ, tempo |-> OneQ,
     virtualPitch |-> OneQ, virtualRate |-> OneQ, virtualTempo |-> OneQ,
     appended |-> 0, taken |-> 0, steps |-> 0])

SoundTouchSetRate(st, rate) ==
  calculateEffectiveRateAndTempo([st EXCEPT !.virtualRate = rate])

(* A tempo setter that stores the value and recomputes nothing. *)
SoundTouchSetTempoStored(st, tempo) == [st EXCEPT !.virtualTempo = tempo]

SoundTouchSetTempo(st, tempo) ==
  calculateEffectiveRateAndTempo([st EXCEPT !.virtualTempo = tempo])

(* A pitch write that clears the three FIFOs first. *)
SoundTouchSetPitchClearing(st, pitch) ==
  calculateEffectiveRateAndTempo(
    [st EXCEPT !.virtualPitch = pitch,
               !.buf = [b \in BufferNames |-> FifoClear(st.buf[b])]])

SoundTouchSetPitch(st, pitch) ==
  calculateEffectiveRateAndTempo([st EXCEPT !.virtualPitch = pitch])

(* process() run twice in a row. *)
SoundTouchProcessTwice(st) ==
  Bind(IF QGreater(st.rate, OneQ)
         THEN TransposerProcess(StretchProcess(TransposerProcess(StretchProcess(st))))
         ELSE StretchProcess(TransposerProcess(StretchProcess(TransposerProcess(st)))),
    LAMBDA after :
      [after EXCEPT !.appended = @ + after.buf["output"].frameCount
                                   - st.buf["output"].frameCount,
                    !.taken = @ + st.buf["input"].frameCount
                                - after.buf["input"].frameCount,
                    !.steps = @ + 2])

(* appended counts the frames process() calls have put into the output    *)
(* FIFO, taken the frames they have removed from the input FIFO, steps the *)
(* calls.                                                                  *)
SoundTouchProcess(st) ==
  Bind(IF QGreater(st.rate, OneQ)
         THEN TransposerProcess(StretchProcess(st))
         ELSE StretchProcess(TransposerProcess(st)),
    LAMBDA after :
      [after EXCEPT !.appended = @ + after.buf["output"].frameCount
                                   - st.buf["output"].frameCount,
                    !.taken = @ + st.buf["input"].frameCount
                                - after.buf["input"].frameCount,
                    !.steps = @ + 1])

SoundTouchClear(st) ==
  Bind(StretchClear(TransposerClear(st)),
    LAMBDA a : [a EXCEPT !.buf = [b \in BufferNames |-> FifoClear(a.buf[b])]])

----------------------------------------------------------------------------
(* AudioWorkletProcessor                                                   *)

VARIABLES
  pipe,               \* SoundTouchProcessor.pipe, the SoundTouch object
  inputInterleaved,   \* SoundTouchProcessor.inputInterleaved
  outputInterleaved,  \* SoundTouchProcessor.outputInterleaved
  leftOut, rightOut,  \* the host's output channel arrays after the last call
  ret,                \* what the last process() call returned
  calls,              \* the process() calls that had input, so far
  lastCall,           \* the last call: "none", "input", "noInput", "noOutput"
  scenario,           \* the stream the host plays: layout, samples, parameters
  drainWindow         \* the output FIFO's valid window before the last drain

adapterVars ==
  << pipe, inputInterleaved, outputInterleaved, leftOut, rightOut, ret, calls,
     lastCall, scenario, drainWindow >>

(* A FifoSampleBuffer driven call by call. *)
VARIABLES
  fifo,          \* the FifoSampleBuffer
  fifoQueue,     \* the numbers of the frames put and not yet received, in order
  fifoPut,       \* the frames put so far
  fifoConsumed,  \* the frames consumed so far
  fifoMoved,     \* how the valid window has been relocated: "grow", "rewind"
  fifoOp         \* the last call, the FIFO before it and the caller's array

fifoVars == << fifo, fifoQueue, fifoPut, fifoConsumed, fifoMoved, fifoOp >>

(* One best-offset search, comparison by comparison. *)
VARIABLES
  seekCase,      \* [quick, seekLength] of the Stretch that searches
  seek           \* the search

seekVars == << seekCase, seek >>

(* A Stretch driven call by call. *)
VARIABLES
  stretcher,     \* the Stretch and its FIFOs (a SoundTouch record)
  stretchOp,     \* the last call; was the Stretch primed, what did its input hold
  stretchFed,    \* the frames fed to its input FIFO so far
  stretchCalls   \* the feeds, clear(), setParameters() and tempo calls so far

stretchVars == << stretcher, stretchOp, stretchFed, stretchCalls >>

(* A RateTransposer driven call by call. *)
VARIABLES
  transposing,   \* the RateTransposer and its FIFOs (a SoundTouch record)
  transposeFed,  \* the frames fed to its input FIFO so far
  transposeOp    \* the last call and what the input FIFO held before it

transposeVars == << transposing, transposeFed, transposeOp >>

(* A SoundTouch driven call by call. *)
VARIABLES
  combiner,      \* the SoundTouch object
  combinerOp,    \* the last call, and the values last written to each parameter
  combinerFed,   \* the frames put into its input FIFO so far
  combinerHeld,  \* the frames of the intermediate FIFO by the pipe that put
                 \* them there, and the frames a pipe has read back
  combinerCalls  \* the feeds and parameter writes so far

combinerVars == << combiner, combinerOp, combinerFed, combinerHeld, combinerCalls >>

(* The window sizes of a Stretch under setParameters() and tempo writes. *)
VARIABLES
  windows,       \* the Stretch
  windowsOp,     \* the last call and the tempo and windows before it
  windowCalls    \* the calls so far

windowVars == << windows, windowsOp, windowCalls >>

(* A SoundTouch without frames under writes of rate, tempo and pitch. *)
VARIABLES
  tuned,         \* the SoundTouch
  tunedWrites    \* the writes so far

writeVars == << tuned, tunedWrites >>

(* The background script and the browser around it. *)
VARIABLES
  tabParams,       \* Map tabId -> RawAudioParams
  tabHost,         \* Map tabId -> hostname
  storage,         \* browser.storage.local: hostname -> stored isEnabled
  loads,           \* the getOrInitTabParams() calls waiting for the storage
  sent,            \* per tab, the paramsUpdate messages sent to it
  accepted,        \* per tab, the params of the last updateParams accepted
  backgroundOp,    \* the last message handled, the state before it, its reply
  backgroundCalls  \* the messages and tab removals handled so far

backgroundVars ==
  << tabParams, tabHost, storage, loads, sent, accepted, backgroundOp,
     backgroundCalls >>

(* The content script of one document. *)
VARIABLES
  params,         \* this.params: empty (null) or one GlobalAudioParams
  audioContext,   \* whether this.audioContext exists
  currentTime,    \* audioContext.currentTime, in milliseconds
  elements,       \* the media elements of the page and their audio nodes
  loaded,         \* whether loadInitialParams() has returned
  received,       \* the isEnabled values received, the last one last
  contentEvents   \* the events of the page and of the extension so far

contentVars ==
  << params, audioContext, currentTime, elements, loaded, received,
     contentEvents >>

vars == << adapterVars, fifoVars, seekVars, stretchVars, transposeVars, combinerVars, windowVars, backgroundVars, contentVars, writeVars >>

(* The AudioWorkletGlobalScope's sampleRate. *)
SampleRate == 8000

(* Math.pow(2, pitchSemitones / 12), for whole octaves (the other values   *)
(* are irrational).                                                        *)
PowerOfTwo(pitchSemitones) ==
  CASE pitchSemitones = 0 -> <<1, 1>>
    [] pitchSemitones = 12 -> <<2, 1>>
    [] pitchSemitones = 24 -> <<4, 1>>
    [] pitchSemitones = -12 -> <<1, 2>>
    [] pitchSemitones = -24 -> <<1, 4>>

(* The parameter push of process(): rate, tempo, then pitch. *)
ApplyParameters(st, parameters) ==
  SoundTouchSetPitch(
    SoundTouchSetTempo(SoundTouchSetRate(st, parameters.rate), parameters.tempo),
    QMul(parameters.pitch, PowerOfTwo(parameters.pitchSemitones)))

(* The interleave loop. *)
Interleave(buffer, leftIn, rightIn) ==
  ArrayOf([idx \in 1..Len(buffer) |->
     LET i == (idx - 1) \div 2
     IN IF i < Len(leftIn)
          THEN (IF idx % 2 = 1 THEN leftIn[i + 1] ELSE rightIn[i + 1])
          ELSE buffer[idx]])

(* pipe.inputBuffer.putSamples(inputInterleaved, 0, leftIn.length); pipe.process() *)
FeedAndProcess(st, interleaved, numFrames) ==
  SoundTouchProcess(
    [st EXCEPT !.buf = [@ EXCEPT !["input"] =
                          FifoPutSamples(@, interleaved, 0, numFrames)]])

(* outputInterleaved.fill(0); pipe.outputBuffer.receiveSamples(...) *)
Drain(outB, scratch, numFrames) ==
  FifoReceiveSamples(outB, NewFloat32Array(Len(scratch)), numFrames)

(* No protection: the sample as drained. *)
ProtectNothing(x) == x

(* NaN protection: Number.isFinite(x) ? x : 0 *)
Protect(x) == IF IsFinite(x) THEN x ELSE ZeroSample

Silence(numFrames) == NewFloat32Array(numFrames)

----------------------------------------------------------------------------
(* The host: the stream it plays and the render calls it makes.            *)

(* The process() calls with input a behaviour makes at most. *)
MaxCalls == 20

(* AudioParam values: the descriptors' defaults unless automated. *)
DefaultParameters ==
  [rate |-> <<1, 1>>, tempo |-> <<1, 1>>, pitch |-> <<1, 1>>, pitchSemitones |-> 0]

Semitones(n) == [DefaultParameters EXCEPT !.pitchSemitones = n]

(* A scenario: the channel layout of the stream, which of its samples are  *)
(* not finite ("swell": none, and the left channel fades out up to frame   *)
(* 600 and swells after it), and the parameter values from each call on    *)
(* (programme: a sequence of [from, parameters], from increasing, the      *)
(* first from 0).                                                          *)
Scenarios ==
  { [layout |-> "stereo", dirt |-> "clean",
     programme |-> << [from |-> 0, parameters |-> DefaultParameters] >>],
    [layout |-> "stereo", dirt |-> "clean",
     programme |-> << [from |-> 0, parameters |-> Semitones(12)] >>],
    [layout |-> "stereo", dirt |-> "clean",
     programme |-> << [from |-> 0, parameters |-> Semitones(-12)] >>],
    [layout |-> "stereo", dirt |-> "clean",
     programme |-> << [from |-> 0, parameters |-> Semitones(-24)] >>],
    [layout |-> "stereo", dirt |-> "clean",
     programme |-> << [from |-> 0,
                       parameters |-> [DefaultParameters EXCEPT !.rate = <<2, 1>>]] >>],
    [layout |-> "stereo", dirt |-> "clean",
     programme |-> << [from |-> 0,
                       parameters |-> [DefaultParameters EXCEPT !.pitch = <<3, 2>>]] >>],
    [layout |-> "stereo", dirt |-> "clean",
     programme |-> << [from |-> 0,
                       parameters |-> [DefaultParameters EXCEPT !.rate = <<1, 2>>]] >>],
    [layout |-> "stereo", dirt |-> "nan",
     programme |-> << [from |-> 0, parameters |-> DefaultParameters] >>],
    [layout |-> "stereo", dirt |-> "swell",
     programme |-> << [from |-> 0, parameters |-> DefaultParameters] >>],
    [layout |-> "mono", dirt |-> "inf",
     programme |-> << [from |-> 0, parameters |-> Semitones(12)] >>],
    [layout |-> "stereo", dirt |-> "clean",
     programme |-> << [from |-> 0, parameters |-> DefaultParameters],
                      [from |-> 3, parameters |-> Semitones(12)],
                      [from |-> 12, parameters |-> Semitones(-12)] >>] }

(* The parameter values the host delivers with call number call (from 0). *)
RECURSIVE ParametersAt(_, _, _)
ParametersAt(programme, call, i) ==
  IF i < Len(programme) /\ programme[i + 1].from <= call
    THEN ParametersAt(programme, call, i + 1)
    ELSE programme[i].parameters

(* The stream's samples, by frame number from the start of the stream. *)
LeftSample(sc, g) ==
  IF sc.dirt = "nan" /\ g % 50 = 7 THEN NaN
  ELSE IF sc.dirt = "inf" /\ g % 400 = 130 THEN PosInfinity
  ELSE IF sc.dirt = "inf" /\ g % 400 = 330 THEN NegInfinity
  ELSE IF sc.dirt = "swell" THEN I(((g % 5) + 1) * (1 + Abs(g - 600) \div 40))
  ELSE I((g % 5) + 1)

RightSample(sc, g) ==
  IF sc.dirt = "nan" /\ g % 90 = 11 THEN NaN
  ELSE I(-((g % 3) + 1))

(* inputs[0] of call number call: its channel arrays. *)
InputChannels(sc, call) ==
  LET left == ArrayOf([i \in 1..RENDER_QUANTUM_FRAMES |->
                 LeftSample(sc, call * RENDER_QUANTUM_FRAMES + i - 1)])
      right == ArrayOf([i \in 1..RENDER_QUANTUM_FRAMES |->
                  RightSample(sc, call * RENDER_QUANTUM_FRAMES + i - 1)])
  IN IF sc.layout = "mono" THEN << left >> ELSE << left, right >>

(* A no-input branch placed after the parameter push. *)
NoInputPipeAfterParameters(st) ==
  ApplyParameters(st, ParametersAt(scenario.programme, calls, 1))

(* What the no-input branch does to the pipeline: it returns before the    *)
(* parameters are read, and touches nothing.                               *)
NoInputPipe(st) == st

(* The state after the SoundTouchProcessor's construction. *)
AdapterConstructed ==
  /\ pipe = NewSoundTouch(SampleRate)
  /\ inputInterleaved = NewFloat32Array(RENDER_QUANTUM_FRAMES * CHANNELS)
  /\ outputInterleaved = NewFloat32Array(RENDER_QUANTUM_FRAMES * CHANNELS)
  /\ leftOut = <<>>
  /\ rightOut = <<>>
  /\ ret = TRUE
  /\ calls = 0
  /\ lastCall = "none"
  /\ drainWindow = <<>>

AdapterInit == scenario \in Scenarios /\ AdapterConstructed

(* process() when outputs[0] is missing or empty. *)
ProcessNoOutput ==
  /\ ret' = FALSE
  /\ lastCall' = "noOutput"
  /\ leftOut' = <<>>
  /\ rightOut' = <<>>
  /\ UNCHANGED << pipe, inputInterleaved, outputInterleaved, calls, scenario,
                  drainWindow >>
  /\ UNCHANGED << fifoVars, seekVars, stretchVars, transposeVars, combinerVars, windowVars, backgroundVars, contentVars, writeVars >>

(* process() when inputs[0] is missing, empty or without a first channel. *)
ProcessNoInput ==
  /\ leftOut' = Silence(RENDER_QUANTUM_FRAMES)
  /\ rightOut' = Silence(RENDER_QUANTUM_FRAMES)
  /\ ret' = TRUE
  /\ pipe' = NoInputPipe(pipe)
  /\ lastCall' = "noInput"
  /\ UNCHANGED << inputInterleaved, outputInterleaved, calls, scenario, drainWindow >>
  /\ UNCHANGED << fifoVars, seekVars, stretchVars, transposeVars, combinerVars, windowVars, backgroundVars, contentVars, writeVars >>

(* process(inputs, outputs, parameters) with input, the objects after the  *)
(* call.  The host's output has as many channels as the input (one         *)
(* AudioWorkletNode input and output, default channel counts); with one    *)
(* channel rightOut is leftOut itself, and each store to rightOut[i]       *)
(* replaces the one to leftOut[i].                                         *)
process(st, inBuf, outBuf, input, parameters) ==
  Bind(Interleave(inBuf, input[1], IF Len(input) > 1 THEN input[2] ELSE input[1]),
    LAMBDA interleaved :
      Bind(FeedAndProcess(ApplyParameters(st, parameters), interleaved,
                          Len(input[1])),
        LAMBDA st2 :
          Bind2(st2.buf["output"],
                Drain(st2.buf["output"], outBuf, RENDER_QUANTUM_FRAMES),
            LAMBDA outB, d :
              Bind(ArrayOf([i \in 1..RENDER_QUANTUM_FRAMES |->
                              Protect(d.output[2 * i])]),
                LAMBDA r :
                  [pipe |-> [st2 EXCEPT !.buf = [@ EXCEPT !["output"] = d.fifo]],
                   inputInterleaved |-> interleaved,
                   outputInterleaved |-> d.output,
                   leftOut |-> IF Len(input) > 1
                                 THEN ArrayOf([i \in 1..RENDER_QUANTUM_FRAMES |->
                                                 Protect(d.output[2 * i - 1])])
                                 ELSE r,
                   rightOut |-> r,
                   drainWindow |->
                     SubSeq(ValidWindow(outB), 1,
                       CHANNELS * Min(outB.frameCount, RENDER_QUANTUM_FRAMES))]))))

ProcessInput ==
  /\ calls < MaxCalls
  /\ \E after \in {process(pipe, inputInterleaved, outputInterleaved,
                           InputChannels(scenario, calls),
                           ParametersAt(scenario.programme, calls, 1))} :
       /\ pipe' = after.pipe
       /\ inputInterleaved' = after.inputInterleaved
       /\ outputInterleaved' = after.outputInterleaved
       /\ leftOut' = after.leftOut
       /\ rightOut' = after.rightOut
       /\ drainWindow' = after.drainWindow
  /\ ret' = TRUE
  /\ calls' = calls + 1
  /\ lastCall' = "input"
  /\ UNCHANGED scenario
  /\ UNCHANGED << fifoVars, seekVars, stretchVars, transposeVars, combinerVars, windowVars, backgroundVars, contentVars, writeVars >>

AdapterNext == ProcessInput \/ ProcessNoInput \/ ProcessNoOutput

----------------------------------------------------------------------------
(* A FifoSampleBuffer and its caller.  The caller numbers the frames it    *)
(* puts 1, 2, 3, ...; frame g holds the samples g (left) and -g (right).   *)

(* The frames a behaviour puts at most. *)
MaxFifoFrames == 3

(* The largest capacity, in frames, the caller asks ensureCapacity() for. *)
MaxFifoCapacity == 2

FrameSamples(g) == << I(g), I(-g) >>

(* The interleaved samples of the frames numbered in frames. *)
FramesToSamples(frames) ==
  ArrayOf([idx \in 1..(CHANNELS * Len(frames)) |->
             FrameSamples(frames[(idx + 1) \div CHANNELS])[2 - (idx % CHANNELS)]])

(* The numbers first, first + 1, ... of count frames. *)
FrameNumbers(first, count) == ArrayOf([i \in 1..count |-> first + i - 1])

(* The source array of a putSamples(samples, position, ...) call: position *)
(* frames the call is to skip, then the frames to put.                     *)
SourceArray(position, frames) ==
  ArrayOf([idx \in 1..(CHANNELS * position) |-> I(1000)]) \o FramesToSamples(frames)

(* What ensureCapacity(numFrames) does to the valid window of f. *)
FifoRelocation(f, numFrames) ==
  IF f.frameCount = 0 THEN {}
  ELSE IF Len(f.vector) < numFrames * CHANNELS THEN {"grow"}
  ELSE IF f.positionFrames > 0 THEN {"rewind"}
  ELSE {}

NoFifoOp ==
  [op |-> "none", count |-> 0, offset |-> 0, before |-> NewFifo,
   supplied |-> <<>>, output |-> <<>>]

FifoInit ==
  /\ fifo = NewFifo
  /\ fifoQueue = <<>>
  /\ fifoPut = 0
  /\ fifoConsumed = 0
  /\ fifoMoved = {}
  /\ fifoOp = NoFifoOp

(* putSamples(samples, position, count); count = -1 is the default, all    *)
(* the frames of samples from position on (2 of them here).                *)
FifoPutSamplesCall ==
  \E position \in 0..1, count \in -1..2 :
    LET frames == IF count >= 0 THEN count ELSE 2
        numbers == FrameNumbers(fifoPut + 1, frames)
    IN /\ fifoPut + frames <= MaxFifoFrames
       /\ fifo' = FifoPutSamples(fifo, SourceArray(position, numbers), position, count)
       /\ fifoQueue' = fifoQueue \o numbers
       /\ fifoPut' = fifoPut + frames
       /\ fifoMoved' = fifoMoved \cup FifoRelocation(fifo, fifo.frameCount + frames)
       /\ fifoOp' = [NoFifoOp EXCEPT !.op = "putSamples", !.count = count,
                                     !.offset = position, !.before = fifo]
       /\ UNCHANGED fifoConsumed
       /\ UNCHANGED << adapterVars, seekVars, stretchVars, transposeVars, combinerVars, windowVars, backgroundVars, contentVars, writeVars >>

(* receive(n), for any n. *)
FifoReceiveCall ==
  \E n \in -1..(MaxFifoFrames + 1) :
    LET consumed == Min(Max(n, 0), Len(fifoQueue))
    IN /\ fifo' = FifoReceive(fifo, n)
       /\ fifoQueue' = SubSeq(fifoQueue, consumed + 1, Len(fifoQueue))
       /\ fifoConsumed' = fifoConsumed + consumed
       /\ fifoOp' = [NoFifoOp EXCEPT !.op = "receive", !.count = n, !.before = fifo]
       /\ UNCHANGED << fifoPut, fifoMoved >>
       /\ UNCHANGED << adapterVars, seekVars, stretchVars, transposeVars, combinerVars, windowVars, backgroundVars, contentVars, writeVars >>

(* receiveSamples(output, count) with a zeroed output of count frames. *)
FifoReceiveSamplesCall ==
  \E count \in 0..3 :
    LET supplied == NewFloat32Array(count * CHANNELS)
        consumed == Min(count, Len(fifoQueue))
    IN \E r \in {FifoReceiveSamples(fifo, supplied, count)} :
         /\ fifo' = r.fifo
         /\ fifoQueue' = SubSeq(fifoQueue, consumed + 1, Len(fifoQueue))
         /\ fifoConsumed' = fifoConsumed + consumed
         /\ fifoOp' = [NoFifoOp EXCEPT !.op = "receiveSamples", !.count = count,
                                       !.before = fifo, !.supplied = supplied,
                                       !.output = r.output]
         /\ UNCHANGED << fifoPut, fifoMoved >>
         /\ UNCHANGED << adapterVars, seekVars, stretchVars, transposeVars, combinerVars, windowVars, backgroundVars, contentVars, writeVars >>

(* extract(output, offset, count) inside the valid window, with a zeroed   *)
(* output of count frames.                                                 *)
FifoExtractCall ==
  \E offset \in 0..fifo.frameCount :
    \E count \in 0..(fifo.frameCount - offset) :
      LET supplied == NewFloat32Array(count * CHANNELS)
      IN /\ fifoOp' = [NoFifoOp EXCEPT
                         !.op = "extract", !.count = count, !.offset = offset,
                         !.before = fifo, !.supplied = supplied,
                         !.output = FifoExtract(fifo, supplied, offset, count)]
         /\ UNCHANGED << fifo, fifoQueue, fifoPut, fifoConsumed, fifoMoved >>
         /\ UNCHANGED << adapterVars, seekVars, stretchVars, transposeVars, combinerVars, windowVars, backgroundVars, contentVars, writeVars >>

FifoEnsureCapacityCall ==
  \E n \in 0..MaxFifoCapacity :
    /\ fifo' = FifoEnsureCapacity(fifo, I(n))
    /\ fifoMoved' = fifoMoved \cup FifoRelocation(fifo, n)
    /\ fifoOp' = [NoFifoOp EXCEPT !.op = "ensureCapacity", !.count = n,
                                  !.before = fifo]
    /\ UNCHANGED << fifoQueue, fifoPut, fifoConsumed >>
    /\ UNCHANGED << adapterVars, seekVars, stretchVars, transposeVars, combinerVars, windowVars, backgroundVars, contentVars, writeVars >>

FifoEnsureAdditionalCapacityCall ==
  \E n \in 0..1 :
    /\ fifo.frameCount + n <= MaxFifoCapacity
    /\ fifo' = FifoEnsureAdditionalCapacity(fifo, I(n))
    /\ fifoMoved' = fifoMoved \cup FifoRelocation(fifo, fifo.frameCount + n)
    /\ fifoOp' = [NoFifoOp EXCEPT !.op = "ensureAdditionalCapacity", !.count = n,
                                  !.before = fifo]
    /\ UNCHANGED << fifoQueue, fifoPut, fifoConsumed >>
    /\ UNCHANGED << adapterVars, seekVars, stretchVars, transposeVars, combinerVars, windowVars, backgroundVars, contentVars, writeVars >>

FifoClearCall ==
  /\ fifo' = FifoClear(fifo)
  /\ fifoQueue' = <<>>
  /\ fifoConsumed' = fifoConsumed + Len(fifoQueue)
  /\ fifoOp' = [NoFifoOp EXCEPT !.op = "clear", !.before = fifo]
  /\ UNCHANGED << fifoPut, fifoMoved >>
  /\ UNCHANGED << adapterVars, seekVars, stretchVars, transposeVars, combinerVars, windowVars, backgroundVars, contentVars, writeVars >>

FifoNext ==
  \/ FifoPutSamplesCall
  \/ FifoReceiveCall
  \/ FifoReceiveSamplesCall
  \/ FifoExtractCall
  \/ FifoEnsureCapacityCall
  \/ FifoEnsureAdditionalCapacityCall
  \/ FifoClearCall

----------------------------------------------------------------------------
(* One best-offset search of a Stretch, one comparison at a time; the      *)
(* outcome of each comparison correlation > bestCorrelation is open (a NaN *)
(* correlation makes it false).                                            *)

(* seekLength as calculateSequenceParameters() sets it. *)
SeekLengthOf(sampleRate, seekWindowMs) == (sampleRate * seekWindowMs) \div 1000

(* The searches: the quick scan at sample rates 8000 and 48000 with the    *)
(* seek windows of tempo 4 (15 ms), tempo 1 (23 ms) and tempo 1/4 (25 ms), *)
(* the linear scan at 8000.                                                *)
SeekCases ==
  { [quick |-> TRUE, seekLength |-> SeekLengthOf(rate, ms)] :
      rate \in {8000, 48000}, ms \in {15, 23, 25} }
  \cup { [quick |-> FALSE, seekLength |-> SeekLengthOf(8000, ms)] : ms \in {15, 23} }

SeekInit ==
  /\ seekCase \in SeekCases
  /\ seek = SeekStart(seekCase.quick, seekCase.seekLength)

SeekIdle ==
  /\ seekCase = [quick |-> TRUE, seekLength |-> SeekLengthOf(SampleRate, 23)]
  /\ seek = SeekStart(seekCase.quick, seekCase.seekLength)

(* The correlation at seek.tempOffset is evaluated and compared. *)
SeekCompare ==
  /\ ~seek.done
  /\ \E better \in BOOLEAN :
       seek' = SeekEvaluated(seekCase.quick, seek, better, seekCase.seekLength)
  /\ UNCHANGED seekCase
  /\ UNCHANGED << adapterVars, fifoVars, stretchVars, transposeVars, combinerVars, windowVars, backgroundVars, contentVars, writeVars >>

(* The search has returned seek.bestOffset; the next iteration searches. *)
SeekAgain ==
  /\ seek.done
  /\ seek' = SeekStart(seekCase.quick, seekCase.seekLength)
  /\ UNCHANGED seekCase
  /\ UNCHANGED << adapterVars, fifoVars, stretchVars, transposeVars, combinerVars, windowVars, backgroundVars, contentVars, writeVars >>

SeekNext == SeekCompare \/ SeekAgain

----------------------------------------------------------------------------
(* A Stretch and its caller: the Stretch of a SoundTouch at rate 1 (input  *)
(* "intermediate", output "output"), fed and called directly.              *)

(* The feeds, clear(), setParameters() and tempo calls a behaviour makes   *)
(* at most (process() calls are not counted).                              *)
MaxStretchCalls == 3

(* The frames of one feed: fewer than overlapLength, or a whole sequence.  *)
StretchFeedSizes == {40, 1100}

(* The samples of the frame numbered g of the feed: a signal of period 5,  *)
(* which the coarse steps of the quick scan (multiples of 5) cannot tell   *)
(* from its shifts.                                                        *)
FedSamples(g) == << I((g % 5) + 1), I(-((g % 5) + 1)) >>

FedArray(first, numFrames) ==
  ArrayOf([idx \in 1..(CHANNELS * numFrames) |->
             FedSamples(first + (idx - 1) \div CHANNELS)[2 - (idx % CHANNELS)]])

(* The call op made on the Stretch of st. *)
StretchCall(op, st) ==
  [op |-> op, primedBefore |-> st.stretch.midBufferInitialized,
   framesBefore |-> st.buf[st.stretch.inputBuffer].frameCount]

StretchInit ==
  /\ stretcher = NewSoundTouch(SampleRate)
  /\ stretchOp = StretchCall("none", stretcher)
  /\ stretchFed = 0
  /\ stretchCalls = 0

(* The upstream pipe puts numFrames frames into the Stretch's input. *)
StretchFeedCall ==
  /\ stretchCalls < MaxStretchCalls
  /\ \E numFrames \in StretchFeedSizes :
       /\ stretcher' =
            [stretcher EXCEPT !.buf = [@ EXCEPT ![stretcher.stretch.inputBuffer] =
               FifoPutSamples(@, FedArray(stretchFed, numFrames), 0, numFrames)]]
       /\ stretchFed' = stretchFed + numFrames
  /\ stretchCalls' = stretchCalls + 1
  /\ stretchOp' = StretchCall("feed", stretcher)
  /\ UNCHANGED << adapterVars, fifoVars, seekVars, transposeVars, combinerVars, windowVars, backgroundVars, contentVars, writeVars >>

StretchProcessCall ==
  /\ stretcher' = StretchProcess(stretcher)
  /\ stretchOp' = StretchCall("process", stretcher)
  /\ UNCHANGED << stretchFed, stretchCalls >>
  /\ UNCHANGED << adapterVars, fifoVars, seekVars, transposeVars, combinerVars, windowVars, backgroundVars, contentVars, writeVars >>

StretchClearCall ==
  /\ stretchCalls < MaxStretchCalls
  /\ stretcher' = StretchClear(stretcher)
  /\ stretchOp' = StretchCall("clear", stretcher)
  /\ stretchCalls' = stretchCalls + 1
  /\ UNCHANGED stretchFed
  /\ UNCHANGED << adapterVars, fifoVars, seekVars, transposeVars, combinerVars, windowVars, backgroundVars, contentVars, writeVars >>

(* setParameters(sampleRate, sequenceMs, seekWindowMs, overlapMs) with a   *)
(* sequence of 40 ms and a seek window of 15 ms.                           *)
StretchSetParametersCall ==
  /\ stretchCalls < MaxStretchCalls
  /\ stretcher' = [stretcher EXCEPT !.stretch =
                     StretchSetParameters(@, SampleRate, 40, 15, DEFAULT_OVERLAP_MS)]
  /\ stretchOp' = StretchCall("setParameters", stretcher)
  /\ stretchCalls' = stretchCalls + 1
  /\ UNCHANGED stretchFed
  /\ UNCHANGED << adapterVars, fifoVars, seekVars, transposeVars, combinerVars, windowVars, backgroundVars, contentVars, writeVars >>

StretchSetTempoCall ==
  /\ stretchCalls < MaxStretchCalls
  /\ stretcher' = [stretcher EXCEPT !.stretch = StretchSetTempo(@, << 2, 1 >>)]
  /\ stretchOp' = StretchCall("tempo", stretcher)
  /\ stretchCalls' = stretchCalls + 1
  /\ UNCHANGED stretchFed
  /\ UNCHANGED << adapterVars, fifoVars, seekVars, transposeVars, combinerVars, windowVars, backgroundVars, contentVars, writeVars >>

(* SoundTouch.clear() on the object that owns the Stretch. *)
SoundTouchClearCall ==
  /\ stretchCalls < MaxStretchCalls
  /\ stretcher' = SoundTouchClear(stretcher)
  /\ stretchOp' = StretchCall("clearAll", stretcher)
  /\ stretchCalls' = stretchCalls + 1
  /\ UNCHANGED stretchFed
  /\ UNCHANGED << adapterVars, fifoVars, seekVars, transposeVars, combinerVars, windowVars, backgroundVars, contentVars, writeVars >>

StretchNext ==
  \/ StretchFeedCall
  \/ StretchProcessCall
  \/ StretchClearCall
  \/ StretchSetParametersCall
  \/ StretchSetTempoCall
  \/ SoundTouchClearCall

----------------------------------------------------------------------------
(* The window sizes of a Stretch: a Stretch without data, reconfigured and *)
(* retimed by its owner.                                                   *)

(* The setParameters() and tempo calls a behaviour makes at most. *)
MaxWindowCalls == 2

(* sampleRate arguments; 0 keeps the sample rate. *)
WindowSampleRates == {0, 11025, 44100}

(* overlapMs arguments; 0 keeps the overlap. *)
WindowOverlaps == {0, 1, 12}

(* sequenceMs and seekWindowMs arguments; 0 asks for the automatic value. *)
WindowSequences == {0, 40}

WindowSeekWindows == {0, 15}

(* Values written to Stretch.tempo: the documented range [0.25, 4.0] and a *)
(* value beyond each end.                                                  *)
WindowTempos ==
  {<< 1, 8 >>, << 1, 4 >>, << 1, 3 >>, << 1, 2 >>, << 1, 1 >>, << 3, 2 >>,
   << 2, 1 >>, << 3, 1 >>, << 4, 1 >>, << 5, 1 >>}

(* The call op made on the Stretch s. *)
WindowsCall(op, s) ==
  [op |-> op, tempo |-> s.tempo, sequenceMs |-> s.sequenceMs,
   seekWindowMs |-> s.seekWindowMs, sampleRate |-> s.sampleRate,
   overlapMs |-> s.overlapMs]

WindowsStart(sampleRate) ==
  /\ windows = NewStretch(sampleRate)
  /\ windowsOp = WindowsCall("none", windows)
  /\ windowCalls = 0

WindowsInit == \E sampleRate \in WindowSampleRates \ {0} : WindowsStart(sampleRate)

WindowsIdle == WindowsStart(SampleRate)

WindowsSetParametersCall ==
  /\ windowCalls < MaxWindowCalls
  /\ \E sampleRate \in WindowSampleRates, sequenceMs \in WindowSequences,
        seekWindowMs \in WindowSeekWindows, overlapMs \in WindowOverlaps :
       windows' = StretchSetParameters(windows, sampleRate, sequenceMs,
                                       seekWindowMs, overlapMs)
  /\ windowsOp' = WindowsCall("setParameters", windows)
  /\ windowCalls' = windowCalls + 1
  /\ UNCHANGED << adapterVars, fifoVars, seekVars, stretchVars, transposeVars, combinerVars, backgroundVars, contentVars, writeVars >>

WindowsSetTempoCall ==
  /\ windowCalls < MaxWindowCalls
  /\ \E newTempo \in WindowTempos : windows' = StretchSetTempo(windows, newTempo)
  /\ windowsOp' = WindowsCall("tempo", windows)
  /\ windowCalls' = windowCalls + 1
  /\ UNCHANGED << adapterVars, fifoVars, seekVars, stretchVars, transposeVars, combinerVars, backgroundVars, contentVars, writeVars >>

WindowsNext == WindowsSetParametersCall \/ WindowsSetTempoCall

----------------------------------------------------------------------------
(* The background script: the parameters of each tab, the messages of the  *)
(* content scripts and of the popup, and the removal of tabs.              *)

(* The messages and tab removals a behaviour handles at most. *)
MaxBackgroundCalls == 3

(* The tabs of the browser. *)
Tabs == {1, 2}

(* The hostnames of the pages. *)
Hosts == {"a.example"}

(* No hostname: a sender url that does not parse, a null or empty host. *)
NoHost == ""

BASE_HZ == 440

DEFAULT_PARAMS == [hz |-> 440, semitons |-> 0, isEnabled |-> FALSE]

(* The params of the popup's updateParams messages. *)
UpdateValues ==
  {[hz |-> 880, semitons |-> 2, isEnabled |-> TRUE],
   [hz |-> 220, semitons |-> 0, isEnabled |-> FALSE]}

(* 12 * Math.log2(hz / BASE_HZ), for the base frequencies whole octaves    *)
(* from BASE_HZ.                                                           *)
HzInSemitones(hz) ==
  CASE hz = BASE_HZ -> 0
    [] hz = 2 * BASE_HZ -> 12
    [] 2 * hz = BASE_HZ -> -12

calculatePitchSemitones(semitons, hz) == semitons + HzInSemitones(hz)

(* Map.set(key, value) and Map.delete(key). *)
MapSet(map, key, value) ==
  [k \in DOMAIN map \cup {key} |-> IF k = key THEN value ELSE map[k]]

MapDelete(map, key) == [k \in DOMAIN map \ {key} |-> map[k]]

(* host ?? this.tabHost.get(tabId) ?? null *)
HostOr(host, hosts, tabId) ==
  IF host # NoHost THEN host
  ELSE IF tabId \in DOMAIN hosts THEN hosts[tabId]
  ELSE NoHost

(* The tabHost map after `if (host) this.tabHost.set(tabId, host)`. *)
TabHostNoted(hosts, tabId, host) ==
  IF host # NoHost THEN MapSet(hosts, tabId, host) ELSE hosts

(* The message op handled for tabId, with its reply (a sequence: empty     *)
(* while the reply waits for the storage).                                 *)
BackgroundCall(op, tabId, reply) ==
  [op |-> op, tabId |-> tabId, reply |-> reply, tabParamsBefore |-> tabParams,
   sentBefore |-> sent, acceptedBefore |-> accepted]

BackgroundInit ==
  /\ tabParams = << >>
  /\ tabHost = << >>
  /\ storage = << >>
  /\ loads = << >>
  /\ sent = [t \in Tabs |-> << >>]
  /\ accepted = << >>
  /\ backgroundOp = BackgroundCall("none", 0, << >>)
  /\ backgroundCalls = 0

(* A getOrInitTabParams() that never asks the storage. *)
GetOrInitWithoutStorage(op, tabId, host) ==
  IF tabId \in DOMAIN tabParams
    THEN /\ backgroundOp' = BackgroundCall(op, tabId, << tabParams[tabId] >>)
         /\ UNCHANGED << tabParams, loads >>
  ELSE IF host = NoHost
    THEN /\ tabParams' = MapSet(tabParams, tabId, DEFAULT_PARAMS)
         /\ backgroundOp' = BackgroundCall(op, tabId, << DEFAULT_PARAMS >>)
         /\ UNCHANGED loads
  ELSE /\ loads' = Append(loads, [tabId |-> tabId, stored |-> << >>])
       /\ backgroundOp' = BackgroundCall(op, tabId, << >>)
       /\ UNCHANGED tabParams

(* getOrInitTabParams(tabId, host) up to its await: an entry of the tab is *)
(* returned, without a host the defaults are stored and returned, else the *)
(* call asks the storage for the host's isEnabled and waits. The storage   *)
(* serves its calls in order: a get answers with what was set before it.   *)
GetOrInitTabParams(op, tabId, host) ==
  IF tabId \in DOMAIN tabParams
    THEN /\ backgroundOp' = BackgroundCall(op, tabId, << tabParams[tabId] >>)
         /\ UNCHANGED << tabParams, loads >>
  ELSE IF host = NoHost
    THEN /\ tabParams' = MapSet(tabParams, tabId, DEFAULT_PARAMS)
         /\ backgroundOp' = BackgroundCall(op, tabId, << DEFAULT_PARAMS >>)
         /\ UNCHANGED loads
  ELSE /\ loads' = Append(loads,
                     [tabId |-> tabId,
                      stored |-> IF host \in DOMAIN storage
                                   THEN << storage[host] >> ELSE << >>])
       /\ backgroundOp' = BackgroundCall(op, tabId, << >>)
       /\ UNCHANGED tabParams

(* The rest of getOrInitTabParams(), once the storage has answered: the    *)
(* defaults, with the host's stored isEnabled, become the tab's entry.     *)
LoadResumes ==
  \E i \in 1..Len(loads) :
    /\ loads' = [j \in 1..(Len(loads) - 1) |->
                   IF j < i THEN loads[j] ELSE loads[j + 1]]
    /\ Bind([DEFAULT_PARAMS EXCEPT
               !.isEnabled = IF loads[i].stored = << >> THEN @
                             ELSE loads[i].stored[1]],
         LAMBDA entry :
           /\ tabParams' = MapSet(tabParams, loads[i].tabId, entry)
           /\ backgroundOp' =
                BackgroundCall("resumed", loads[i].tabId, << entry >>))
    /\ UNCHANGED << tabHost, storage, sent, accepted, backgroundCalls >>
    /\ UNCHANGED << adapterVars, fifoVars, seekVars, stretchVars, transposeVars, combinerVars, windowVars, contentVars, writeVars >>

(* getParams from the content script of a tab; host is the hostname of the *)
(* sender's url.                                                           *)
GetParamsMessage ==
  /\ backgroundCalls < MaxBackgroundCalls
  /\ \E tabId \in Tabs, host \in Hosts \cup {NoHost} :
       /\ tabHost' = TabHostNoted(tabHost, tabId, host)
       /\ GetOrInitTabParams("getParams", tabId, HostOr(host, tabHost, tabId))
  /\ backgroundCalls' = backgroundCalls + 1
  /\ UNCHANGED << storage, sent, accepted >>
  /\ UNCHANGED << adapterVars, fifoVars, seekVars, stretchVars, transposeVars, combinerVars, windowVars, contentVars, writeVars >>

(* getParams from a sender without a tab. *)
GetParamsWithoutTab ==
  /\ backgroundCalls < MaxBackgroundCalls
  /\ backgroundOp' = BackgroundCall("getParamsWithoutTab", 0, << DEFAULT_PARAMS >>)
  /\ backgroundCalls' = backgroundCalls + 1
  /\ UNCHANGED << tabParams, tabHost, storage, loads, sent, accepted >>
  /\ UNCHANGED << adapterVars, fifoVars, seekVars, stretchVars, transposeVars, combinerVars, windowVars, contentVars, writeVars >>

(* updateTabParams(tabId, patch): the entry of the tab (the defaults when  *)
(* it has none) takes the patch, and the tab is sent a paramsUpdate.       *)
UpdateTabParams(tabId, patch) ==
  Bind([hz |-> patch.hz, semitons |-> patch.semitons,
        isEnabled |-> patch.isEnabled],
    LAMBDA entry :
      /\ tabParams' = MapSet(tabParams, tabId, entry)
      /\ sent' = [sent EXCEPT ![tabId] =
                    Append(@, [type |-> "paramsUpdate",
                               params |->
                                 [pitch |-> calculatePitchSemitones(
                                              entry.semitons, entry.hz),
                                  isEnabled |-> entry.isEnabled]])])

(* updateParams from the popup; host is the hostname the popup gives. *)
UpdateParamsMessage ==
  /\ backgroundCalls < MaxBackgroundCalls
  /\ \E tabId \in Tabs, given \in Hosts \cup {NoHost}, patch \in UpdateValues :
       /\ Bind(HostOr(given, tabHost, tabId),
            LAMBDA host :
              /\ tabHost' = TabHostNoted(tabHost, tabId, host)
              /\ storage' = IF host # NoHost
                              THEN MapSet(storage, host, patch.isEnabled)
                              ELSE storage)
       /\ UpdateTabParams(tabId, patch)
       /\ accepted' = MapSet(accepted, tabId, patch)
       /\ backgroundOp' =
            BackgroundCall("updateParams", tabId, << [success |-> TRUE] >>)
  /\ backgroundCalls' = backgroundCalls + 1
  /\ UNCHANGED loads
  /\ UNCHANGED << adapterVars, fifoVars, seekVars, stretchVars, transposeVars, combinerVars, windowVars, contentVars, writeVars >>

(* getCurrentTabParams from the popup, once tabs.query() has answered with *)
(* the active tab and its url's hostname.                                  *)
GetCurrentTabParamsMessage ==
  /\ backgroundCalls < MaxBackgroundCalls
  /\ \E tabId \in Tabs, host \in Hosts \cup {NoHost} :
       /\ tabHost' = TabHostNoted(tabHost, tabId, host)
       /\ GetOrInitTabParams("getCurrentTabParams", tabId,
                             HostOr(host, tabHost, tabId))
  /\ backgroundCalls' = backgroundCalls + 1
  /\ UNCHANGED << storage, sent, accepted >>
  /\ UNCHANGED << adapterVars, fifoVars, seekVars, stretchVars, transposeVars, combinerVars, windowVars, contentVars, writeVars >>

(* tabs.onRemoved: the tab's entries are deleted; the tab is gone, and so  *)
(* is what was accepted for it.                                            *)
TabRemoved ==
  /\ backgroundCalls < MaxBackgroundCalls
  /\ \E tabId \in Tabs :
       /\ tabParams' = MapDelete(tabParams, tabId)
       /\ tabHost' = MapDelete(tabHost, tabId)
       /\ accepted' = MapDelete(accepted, tabId)
       /\ backgroundOp' = BackgroundCall("removed", tabId, << >>)
  /\ backgroundCalls' = backgroundCalls + 1
  /\ UNCHANGED << storage, loads, sent >>
  /\ UNCHANGED << adapterVars, fifoVars, seekVars, stretchVars, transposeVars, combinerVars, windowVars, contentVars, writeVars >>

BackgroundNext ==
  \/ GetParamsMessage
  \/ GetParamsWithoutTab
  \/ UpdateParamsMessage
  \/ GetCurrentTabParamsMessage
  \/ TabRemoved
  \/ LoadResumes

----------------------------------------------------------------------------
(* The content script: the initial getParams load, the paramsUpdate        *)
(* messages, the media elements that come, play, go and come back, and the *)
(* gain automation of the connected ones.                                  *)

(* The events of the page and of the extension a behaviour has at most. *)
MaxContentEvents == 4

(* The media elements the page ever has. *)
Elements == {1, 2}

(* AUDIO_CONFIG.fadeTimeSeconds, in milliseconds. *)
FadeTimeMs == 150

(* The steps of audioContext.currentTime between two events. *)
TimeSteps == {50, 200}

(* The params of the paramsUpdate messages. *)
UpdateMessages ==
  {[pitch |-> calculatePitchSemitones(raw.semitons, raw.hz),
    isEnabled |-> raw.isEnabled] : raw \in UpdateValues}

(* toGlobalAudioParams(raw) *)
toGlobalAudioParams(raw) ==
  [pitch |-> raw.semitons + HzInSemitones(raw.hz), isEnabled |-> raw.isEnabled]

(* An AudioParam after setValueAtTime(value, now) on an empty timeline. *)
SetValueAtTime(value, now) ==
  [value |-> value, start |-> now, target |-> value, end |-> now]

(* AudioParam.value at the time now. *)
ValueAt(param, now) ==
  IF now >= param.end THEN param.target
  ELSE IF now <= param.start THEN param.value
  ELSE QAdd(param.value,
            QMul(QSub(param.target, param.value),
                 Q(now - param.start, param.end - param.start)))

(* cancelAndHold(param, now), then linearRampToValueAtTime(target, end). *)
RampFromHeld(param, target, now, end) ==
  [value |-> ValueAt(param, now), start |-> now, target |-> target, end |-> end]

(* linearRampToValueAtTime(target, end) after the events of the timeline. *)
LinearRampToValueAtTime(param, target, now, end) ==
  [value |-> param.target, start |-> IF param.end > now THEN param.end ELSE now,
   target |-> target, end |-> end]

(* setMixImmediate(bypass, effect, enabled, now) on the element el. *)
setMixImmediate(el, enabled, now) ==
  [el EXCEPT !.bypassGain = SetValueAtTime(IF enabled THEN ZeroSample ELSE OneQ, now),
             !.effectGain = SetValueAtTime(IF enabled THEN OneQ ELSE ZeroSample, now)]

(* crossfade(data, enabled, now) on the element el. *)
crossfade(el, enabled, now) ==
  [el EXCEPT !.bypassGain = RampFromHeld(@, IF enabled THEN ZeroSample ELSE OneQ,
                                         now, now + FadeTimeMs),
             !.effectGain = RampFromHeld(@, IF enabled THEN OneQ ELSE ZeroSample,
                                         now, now + FadeTimeMs)]

(* A media element the content script has not met; attempts counts the    *)
(* calls of createMediaElementSource(element).                             *)
NewElement(inDocument) ==
  [inDocument |-> inDocument, paused |-> TRUE, listeners |-> 0,
   connecting |-> 0, processed |-> FALSE, attempts |-> 0,
   pitchSemitones |-> SetValueAtTime(ZeroSample, 0),
   bypassGain |-> SetValueAtTime(OneQ, 0),
   effectGain |-> SetValueAtTime(OneQ, 0)]

(* Whether connectElement(element) gets to its await: this.params is set   *)
(* and the element is not processed.                                       *)
ConnectStarts(el, current) == current # << >> /\ ~el.processed

(* setupElement(element): one more 'play' listener, and connectElement()   *)
(* at once for an element that is playing.                                 *)
setupElement(el, current) ==
  [el EXCEPT !.listeners = @ + 1,
             !.connecting = IF ~el.paused /\ ConnectStarts(el, current)
                              THEN @ + 1 ELSE @]

(* Whether some element of els waits in connectElement(), which has made   *)
(* the AudioContext.                                                       *)
SomeConnecting(els) == \E e \in Elements : els[e].connecting > 0

ContentInit ==
  /\ params = << >>
  /\ audioContext = FALSE
  /\ currentTime = 0
  /\ elements = [e \in Elements |-> NewElement(e = 1)]
  /\ loaded = FALSE
  /\ received = << >>
  /\ contentEvents = 0

(* The end of start(): loadInitialParams() sets this.params from the reply *)
(* to getParams (or, when sendMessage() rejects, to pitch 0 and disabled), *)
(* then setupExistingElements() and the MutationObserver.                  *)
LoadEnds ==
  /\ ~loaded
  /\ loaded' = TRUE
  /\ \E initial \in {toGlobalAudioParams(raw) : raw \in UpdateValues \cup {DEFAULT_PARAMS}}
                      \cup {[pitch |-> 0, isEnabled |-> FALSE]} :
       /\ params' = << initial >>
       /\ received' = Append(received, initial.isEnabled)
       /\ elements' = [e \in Elements |->
                         IF elements[e].inDocument
                           THEN setupElement(elements[e], << initial >>)
                           ELSE elements[e]]
  /\ audioContext' = (audioContext \/ SomeConnecting(elements'))
  /\ UNCHANGED << currentTime, contentEvents >>
  /\ UNCHANGED << adapterVars, fifoVars, seekVars, stretchVars, transposeVars, combinerVars, windowVars, backgroundVars, writeVars >>

(* A paramsUpdate message: applyParamsToAll(params). *)
ParamsUpdate ==
  /\ contentEvents < MaxContentEvents
  /\ \E update \in UpdateMessages :
       /\ params' = << update >>
       /\ received' = Append(received, update.isEnabled)
       /\ elements' =
            [e \in Elements |->
               IF audioContext /\ elements[e].inDocument /\ elements[e].processed
                 THEN Bind([elements[e] EXCEPT !.pitchSemitones =
                              LinearRampToValueAtTime(@, I(update.pitch), currentTime,
                                                      currentTime + FadeTimeMs)],
                        LAMBDA ramped :
                          IF params # << >> /\ params[1].isEnabled # update.isEnabled
                            THEN crossfade(ramped, update.isEnabled, currentTime)
                            ELSE ramped)
                 ELSE elements[e]]
  /\ contentEvents' = contentEvents + 1
  /\ UNCHANGED << audioContext, currentTime, loaded >>
  /\ UNCHANGED << adapterVars, fifoVars, seekVars, stretchVars, transposeVars, combinerVars, windowVars, backgroundVars, writeVars >>

(* The element starts playing: its 'play' listeners, each of them once,    *)
(* call connectElement().                                                  *)
ElementPlays ==
  /\ contentEvents < MaxContentEvents
  /\ \E e \in Elements :
       /\ elements[e].paused
       /\ elements' = [elements EXCEPT
            ![e].paused = FALSE,
            ![e].listeners = 0,
            ![e].connecting = IF ConnectStarts(elements[e], params)
                                THEN @ + elements[e].listeners ELSE @]
  /\ audioContext' = (audioContext \/ SomeConnecting(elements'))
  /\ contentEvents' = contentEvents + 1
  /\ UNCHANGED << params, currentTime, loaded, received >>
  /\ UNCHANGED << adapterVars, fifoVars, seekVars, stretchVars, transposeVars, combinerVars, windowVars, backgroundVars, writeVars >>

(* connectElement() after ensureAudioContextReady(): the nodes, the        *)
(* initial pitch and mix, and the entry in processed. For an element that  *)
(* has a source already createMediaElementSource() throws.                 *)
ConnectResumes ==
  /\ \E e \in Elements :
       /\ elements[e].connecting > 0
       /\ elements' = [elements EXCEPT ![e] =
            IF elements[e].processed
              THEN [@ EXCEPT !.connecting = @ - 1, !.attempts = @ + 1]
              ELSE [setMixImmediate(@, params[1].isEnabled, currentTime) EXCEPT
                      !.connecting = @ - 1,
                      !.attempts = @ + 1,
                      !.processed = TRUE,
                      !.pitchSemitones =
                         SetValueAtTime(I(params[1].pitch), currentTime)]]
  /\ UNCHANGED << params, audioContext, currentTime, loaded, received, contentEvents >>
  /\ UNCHANGED << adapterVars, fifoVars, seekVars, stretchVars, transposeVars, combinerVars, windowVars, backgroundVars, writeVars >>

(* ensureAudioContextReady() rejects (the worklet module does not load). *)
ConnectFails ==
  /\ \E e \in Elements :
       /\ elements[e].connecting > 0
       /\ elements' = [elements EXCEPT ![e].connecting = @ - 1]
  /\ UNCHANGED << params, audioContext, currentTime, loaded, received, contentEvents >>
  /\ UNCHANGED << adapterVars, fifoVars, seekVars, stretchVars, transposeVars, combinerVars, windowVars, backgroundVars, writeVars >>

(* The page inserts the element; the MutationObserver, once installed,     *)
(* calls setupElement().                                                   *)
ElementInserted ==
  /\ contentEvents < MaxContentEvents
  /\ \E e \in Elements :
       /\ ~elements[e].inDocument
       /\ elements' = [elements EXCEPT ![e] =
            IF loaded
              THEN setupElement([@ EXCEPT !.inDocument = TRUE], params)
              ELSE [@ EXCEPT !.inDocument = TRUE]]
  /\ audioContext' = (audioContext \/ SomeConnecting(elements'))
  /\ contentEvents' = contentEvents + 1
  /\ UNCHANGED << params, currentTime, loaded, received >>
  /\ UNCHANGED << adapterVars, fifoVars, seekVars, stretchVars, transposeVars, combinerVars, windowVars, backgroundVars, writeVars >>

(* The page removes the element from the document, which pauses it. *)
ElementRemoved ==
  /\ contentEvents < MaxContentEvents
  /\ \E e \in Elements :
       /\ elements[e].inDocument
       /\ elements' = [elements EXCEPT ![e].inDocument = FALSE, ![e].paused = TRUE]
  /\ contentEvents' = contentEvents + 1
  /\ UNCHANGED << params, audioContext, currentTime, loaded, received >>
  /\ UNCHANGED << adapterVars, fifoVars, seekVars, stretchVars, transposeVars, combinerVars, windowVars, backgroundVars, writeVars >>

(* The AudioContext's clock advances. *)
TimePasses ==
  /\ contentEvents < MaxContentEvents
  /\ audioContext
  /\ \E step \in TimeSteps : currentTime' = currentTime + step
  /\ contentEvents' = contentEvents + 1
  /\ UNCHANGED << params, audioContext, elements, loaded, received >>
  /\ UNCHANGED << adapterVars, fifoVars, seekVars, stretchVars, transposeVars, combinerVars, windowVars, backgroundVars, writeVars >>

ContentNext ==
  \/ LoadEnds
  \/ ParamsUpdate
  \/ ElementPlays
  \/ ConnectResumes
  \/ ConnectFails
  \/ ElementInserted
  \/ ElementRemoved
  \/ TimePasses

----------------------------------------------------------------------------
(* The parameters of a SoundTouch: writes of rate, tempo and pitch, some   *)
(* of them steps smaller than FLOAT_EPSILON.                               *)

(* The writes a behaviour makes at most. *)
MaxWrites == 3

(* The values written to rate and to tempo: among them three values, each *)
(* less than FLOAT_EPSILON = 1e-10 from the next and the first more than   *)
(* FLOAT_EPSILON from the last.                                            *)
WrittenValues ==
  {OneQ, << 100001, 100000 >>, << 100002, 100001 >>, << 100003, 100002 >>,
   << 2, 1 >>}

(* The values written to pitch. *)
WrittenPitches == {OneQ, << 1, 2 >>, << 2, 1 >>}

WritesInit ==
  /\ tuned = NewSoundTouch(SampleRate)
  /\ tunedWrites = 0

WriteRate ==
  /\ tunedWrites < MaxWrites
  /\ \E rate \in WrittenValues : tuned' = SoundTouchSetRate(tuned, rate)
  /\ tunedWrites' = tunedWrites + 1
  /\ UNCHANGED << adapterVars, fifoVars, seekVars, stretchVars, transposeVars, combinerVars, windowVars, backgroundVars, contentVars >>

WriteTempo ==
  /\ tunedWrites < MaxWrites
  /\ \E tempo \in WrittenValues : tuned' = SoundTouchSetTempo(tuned, tempo)
  /\ tunedWrites' = tunedWrites + 1
  /\ UNCHANGED << adapterVars, fifoVars, seekVars, stretchVars, transposeVars, combinerVars, windowVars, backgroundVars, contentVars >>

WritePitch ==
  /\ tunedWrites < MaxWrites
  /\ \E pitch \in WrittenPitches : tuned' = SoundTouchSetPitch(tuned, pitch)
  /\ tunedWrites' = tunedWrites + 1
  /\ UNCHANGED << adapterVars, fifoVars, seekVars, stretchVars, transposeVars, combinerVars, windowVars, backgroundVars, contentVars >>

WritesNext == WriteRate \/ WriteTempo \/ WritePitch

----------------------------------------------------------------------------
(* A RateTransposer and its caller: the RateTransposer of a SoundTouch     *)
(* (input "input", output "intermediate"), its rate set once, fed and      *)
(* called directly.                                                        *)

(* The frames of the stream fed. *)
MaxTransposeFrames == 6

TransposeRates ==
  {<< 1, 4 >>, << 1, 2 >>, << 2, 3 >>, << 1, 1 >>, << 3, 2 >>, << 2, 1 >>, << 3, 1 >>}

(* The samples of the frame numbered g of the stream. *)
TransposeSamples(g) == << I(((g * g) % 7) + 1), I(-((g % 4) + 1)) >>

TransposeArray(first, numFrames) ==
  ArrayOf([idx \in 1..(CHANNELS * numFrames) |->
             TransposeSamples(first + (idx - 1) \div CHANNELS)[2 - (idx % CHANNELS)]])

(* A new RateTransposer with its rate set. *)
NewTransposer(rate) == [NewSoundTouch(SampleRate) EXCEPT !.transposer.rate = rate]

(* The upstream side puts the frames first .. first + numFrames - 1 of the *)
(* stream into the RateTransposer's input.                                 *)
TransposeFed(st, first, numFrames) ==
  [st EXCEPT !.buf = [@ EXCEPT ![st.transposer.inputBuffer] =
     FifoPutSamples(@, TransposeArray(first, numFrames), 0, numFrames)]]

(* The call op made on the RateTransposer of st. *)
TransposeCall(op, st) ==
  [op |-> op, framesBefore |-> st.buf[st.transposer.inputBuffer].frameCount]

TransposeStart(rate) ==
  /\ transposing = NewTransposer(rate)
  /\ transposeFed = 0
  /\ transposeOp = TransposeCall("none", transposing)

TransposeInit == \E rate \in TransposeRates : TransposeStart(rate)

TransposeIdle == TransposeStart(OneQ)

TransposeFeedCall ==
  /\ \E numFrames \in 1..(MaxTransposeFrames - transposeFed) :
       /\ transposing' = TransposeFed(transposing, transposeFed, numFrames)
       /\ transposeFed' = transposeFed + numFrames
  /\ transposeOp' = TransposeCall("feed", transposing)
  /\ UNCHANGED << adapterVars, fifoVars, seekVars, stretchVars, combinerVars, windowVars, backgroundVars, contentVars, writeVars >>

TransposeProcessCall ==
  /\ transposing' = TransposerProcess(transposing)
  /\ transposeOp' = TransposeCall("process", transposing)
  /\ UNCHANGED transposeFed
  /\ UNCHANGED << adapterVars, fifoVars, seekVars, stretchVars, combinerVars, windowVars, backgroundVars, contentVars, writeVars >>

TransposeNext == TransposeFeedCall \/ TransposeProcessCall

----------------------------------------------------------------------------
(* A SoundTouch and its caller: frames put into its input FIFO, process(), *)
(* and writes of rate, tempo and pitch, one at a time.                     *)

(* The feeds and parameter writes a behaviour makes at most (process()     *)
(* calls are not counted).                                                 *)
MaxCombinerCalls == 3

(* The frames of one feed: more than one iteration of the Stretch needs. *)
CombinerFeedFrames == 1100

CombinerRates == {<< 2, 1 >>}

CombinerTempos == {<< 2, 1 >>}

CombinerPitches == {<< 1, 2 >>, << 2, 1 >>}

CombinerInit ==
  /\ combiner = NewSoundTouch(SampleRate)
  /\ combinerOp = [op |-> "none", value |-> OneQ,
                   written |-> [rate |-> OneQ, tempo |-> OneQ, pitch |-> OneQ]]
  /\ combinerFed = 0
  /\ combinerHeld = [segments |-> << >>, reread |-> 0]
  /\ combinerCalls = 0

CombinerFeedCall ==
  /\ combinerCalls < MaxCombinerCalls
  /\ combiner' = [combiner EXCEPT !.buf = [@ EXCEPT !["input"] =
       FifoPutSamples(@, FedArray(combinerFed, CombinerFeedFrames), 0,
                      CombinerFeedFrames)]]
  /\ combinerFed' = combinerFed + CombinerFeedFrames
  /\ UNCHANGED combinerHeld
  /\ combinerCalls' = combinerCalls + 1
  /\ combinerOp' = [combinerOp EXCEPT !.op = "feed", !.value = I(CombinerFeedFrames)]
  /\ UNCHANGED << adapterVars, fifoVars, seekVars, stretchVars, transposeVars, windowVars, backgroundVars, contentVars, writeVars >>

(* The frames of the intermediate FIFO, oldest first, as runs of frames    *)
(* put there by one pipe, after that pipe has put count more.              *)
HeldAfterPut(segments, writer, count) ==
  IF count = 0 THEN segments
  ELSE IF segments # << >> /\ segments[Len(segments)].pipe = writer
    THEN [segments EXCEPT ![Len(segments)].count = @ + count]
  ELSE Append(segments, [pipe |-> writer, count |-> count])

(* The runs after the reader has received count frames, the oldest first,    *)
(* and the number of frames it received that it had put there itself.      *)
RECURSIVE HeldAfterReceive(_, _, _)
HeldAfterReceive(held, reader, count) ==
  IF count = 0 \/ held.segments = << >> THEN held
  ELSE Bind(Min(count, held.segments[1].count),
         LAMBDA part :
           HeldAfterReceive(
             [segments |-> IF part = held.segments[1].count
                             THEN Tail(held.segments)
                             ELSE [held.segments EXCEPT ![1].count = @ - part],
              reread |-> IF held.segments[1].pipe = reader
                           THEN held.reread + part ELSE held.reread],
             reader, count - part))

(* The pipe that process() runs first. *)
FirstPipe(st) == IF QGreater(st.rate, OneQ) THEN "stretch" ELSE "transposer"

SecondPipe(st) == IF QGreater(st.rate, OneQ) THEN "transposer" ELSE "stretch"

(* process(); its caller here keeps no count of the steps. *)
CombinerProcessCall ==
  /\ combiner' = [SoundTouchProcess(combiner) EXCEPT !.steps = combiner.steps]
  /\ Bind(IF QGreater(combiner.rate, OneQ)
            THEN StretchProcess(combiner) ELSE TransposerProcess(combiner),
       LAMBDA between :
         combinerHeld' =
           HeldAfterReceive(
             [combinerHeld EXCEPT !.segments =
                HeldAfterPut(@, FirstPipe(combiner),
                             between.buf["intermediate"].frameCount
                               - combiner.buf["intermediate"].frameCount)],
             SecondPipe(combiner),
             between.buf["intermediate"].frameCount
               - combiner'.buf["intermediate"].frameCount))
  /\ combinerOp' = [combinerOp EXCEPT !.op = "process", !.value = OneQ]
  /\ UNCHANGED << combinerFed, combinerCalls >>
  /\ UNCHANGED << adapterVars, fifoVars, seekVars, stretchVars, transposeVars, windowVars, backgroundVars, contentVars, writeVars >>

CombinerSetRateCall ==
  /\ combinerCalls < MaxCombinerCalls
  /\ \E rate \in CombinerRates :
       /\ combiner' = SoundTouchSetRate(combiner, rate)
       /\ combinerOp' = [combinerOp EXCEPT !.op = "rate", !.value = rate,
                                            !.written.rate = rate]
  /\ combinerCalls' = combinerCalls + 1
  /\ UNCHANGED << combinerFed, combinerHeld >>
  /\ UNCHANGED << adapterVars, fifoVars, seekVars, stretchVars, transposeVars, windowVars, backgroundVars, contentVars, writeVars >>

CombinerSetTempoCall ==
  /\ combinerCalls < MaxCombinerCalls
  /\ \E tempo \in CombinerTempos :
       /\ combiner' = SoundTouchSetTempo(combiner, tempo)
       /\ combinerOp' = [combinerOp EXCEPT !.op = "tempo", !.value = tempo,
                                            !.written.tempo = tempo]
  /\ combinerCalls' = combinerCalls + 1
  /\ UNCHANGED << combinerFed, combinerHeld >>
  /\ UNCHANGED << adapterVars, fifoVars, seekVars, stretchVars, transposeVars, windowVars, backgroundVars, contentVars, writeVars >>

CombinerSetPitchCall ==
  /\ combinerCalls < MaxCombinerCalls
  /\ \E pitch \in CombinerPitches :
       /\ combiner' = SoundTouchSetPitch(combiner, pitch)
       /\ combinerOp' = [combinerOp EXCEPT !.op = "pitch", !.value = pitch,
                                            !.written.pitch = pitch]
  /\ combinerCalls' = combinerCalls + 1
  /\ UNCHANGED << combinerFed, combinerHeld >>
  /\ UNCHANGED << adapterVars, fifoVars, seekVars, stretchVars, transposeVars, windowVars, backgroundVars, contentVars, writeVars >>

CombinerNext ==
  \/ CombinerFeedCall
  \/ CombinerProcessCall
  \/ CombinerSetRateCall
  \/ CombinerSetTempoCall
  \/ CombinerSetPitchCall

----------------------------------------------------------------------------
(* Specifications                                                          *)

AdapterIdle ==
  /\ scenario = [layout |-> "stereo", dirt |-> "clean",
                 programme |-> << [from |-> 0, parameters |-> DefaultParameters] >>]
  /\ AdapterConstructed

(* The SoundTouchProcessor and its host. *)
Init ==
  AdapterInit /\ FifoInit /\ SeekIdle /\ StretchInit /\ TransposeIdle
  /\ CombinerInit
  /\ WindowsIdle
  /\ WritesInit
  /\ BackgroundInit
  /\ ContentInit

Next == AdapterNext

Spec == Init /\ [][Next]_vars

(* A FifoSampleBuffer and its caller. *)
InitFifo ==
  AdapterIdle /\ FifoInit /\ SeekIdle /\ StretchInit /\ TransposeIdle
  /\ CombinerInit
  /\ WindowsIdle
  /\ WritesInit
  /\ BackgroundInit
  /\ ContentInit

SpecFifo == InitFifo /\ [][FifoNext]_vars

(* One best-offset search. *)
InitSeek ==
  AdapterIdle /\ FifoInit /\ SeekInit /\ StretchInit /\ TransposeIdle
  /\ CombinerInit
  /\ WindowsIdle
  /\ WritesInit
  /\ BackgroundInit
  /\ ContentInit

SpecSeek == InitSeek /\ [][SeekNext]_vars

(* A Stretch and its caller. *)
InitStretch ==
  AdapterIdle /\ FifoInit /\ SeekIdle /\ StretchInit /\ TransposeIdle
  /\ CombinerInit
  /\ WindowsIdle
  /\ WritesInit
  /\ BackgroundInit
  /\ ContentInit

SpecStretch == InitStretch /\ [][StretchNext]_vars

(* A RateTransposer and its caller. *)
InitTranspose ==
  AdapterIdle /\ FifoInit /\ SeekIdle /\ StretchInit /\ TransposeInit
  /\ CombinerInit
  /\ WindowsIdle
  /\ WritesInit
  /\ BackgroundInit
  /\ ContentInit

SpecTranspose == InitTranspose /\ [][TransposeNext]_vars

(* A SoundTouch and its caller. *)
InitCombiner ==
  AdapterIdle /\ FifoInit /\ SeekIdle /\ StretchInit /\ TransposeIdle
  /\ CombinerInit
  /\ WindowsIdle
  /\ WritesInit
  /\ BackgroundInit
  /\ ContentInit

SpecCombiner == InitCombiner /\ [][CombinerNext]_vars

(* The window sizes of a Stretch. *)
InitWindows ==
  AdapterIdle /\ FifoInit /\ SeekIdle /\ StretchInit /\ TransposeIdle
  /\ CombinerInit
  /\ WindowsInit
  /\ WritesInit
  /\ BackgroundInit
  /\ ContentInit

SpecWindows == InitWindows /\ [][WindowsNext]_vars

(* The parameters of a SoundTouch. *)
InitWrites ==
  AdapterIdle /\ FifoInit /\ SeekIdle /\ StretchInit /\ TransposeIdle
  /\ CombinerInit
  /\ WindowsIdle
  /\ WritesInit
  /\ BackgroundInit
  /\ ContentInit

SpecWrites == InitWrites /\ [][WritesNext]_vars

(* The background script and its messages. *)
InitBackground ==
  AdapterIdle /\ FifoInit /\ SeekIdle /\ StretchInit /\ TransposeIdle
  /\ CombinerInit
  /\ WindowsIdle
  /\ WritesInit
  /\ BackgroundInit
  /\ ContentInit

SpecBackground == InitBackground /\ [][BackgroundNext]_vars

(* The content script and its page. *)
InitContent ==
  AdapterIdle /\ FifoInit /\ SeekIdle /\ StretchInit /\ TransposeIdle
  /\ CombinerInit
  /\ WindowsIdle
  /\ WritesInit
  /\ BackgroundInit
  /\ ContentInit

SpecContent == InitContent /\ [][ContentNext]_vars

----------------------------------------------------------------------------
(* Properties                                                              *)

(* C1: after a process() call with input, frame i of the host's output     *)
(* block is frame i of the output FIFO's valid window before the drain     *)
(* (non-finite samples zeroed) while the window has such a frame, and      *)
(* exact zero from there on: nothing stored outside the window is emitted. *)
C1_OutputIsWindowThenSilence ==
  lastCall = "input" =>
    \A i \in 1..RENDER_QUANTUM_FRAMES :
      LET held == CHANNELS * i <= Len(drainWindow)
          l == IF held THEN Protect(drainWindow[CHANNELS * i - 1]) ELSE ZeroSample
          r == IF held THEN Protect(drainWindow[CHANNELS * i]) ELSE ZeroSample
      IN /\ rightOut[i] = r
         /\ leftOut[i] = IF scenario.layout = "mono" THEN r ELSE l

(* C2: a process() call without input leaves exact zero in every frame of  *)
(* both output channels, returns true, and changes nothing of the          *)
(* pipeline: FIFOs, rates, Stretch and RateTransposer state.               *)
C2_NoInputIsSilentAndInert ==
  [][lastCall' = "noInput" =>
       /\ Len(leftOut') = RENDER_QUANTUM_FRAMES
       /\ Len(rightOut') = RENDER_QUANTUM_FRAMES
       /\ \A i \in 1..RENDER_QUANTUM_FRAMES :
            leftOut'[i] = ZeroSample /\ rightOut'[i] = ZeroSample
       /\ ret' = TRUE
       /\ pipe' = pipe
       /\ inputInterleaved' = inputInterleaved
       /\ outputInterleaved' = outputInterleaved]_vars

(* A call without input on a pipeline that is primed and holds output. *)
C2_Witness ==
  /\ lastCall = "noInput"
  /\ pipe.stretch.midBufferInitialized
  /\ pipe.buf["output"].frameCount > 0
  /\ pipe.buf["intermediate"].frameCount > 0

(* C3: every sample in the host's output channel arrays is finite, also    *)
(* when input samples are NaN or infinite.                                 *)
C3_OutputIsFinite ==
  /\ \A i \in 1..Len(leftOut) : IsFinite(leftOut[i])
  /\ \A i \in 1..Len(rightOut) : IsFinite(rightOut[i])

(* A call that drained a non-finite sample from the output FIFO. *)
C3_Witness ==
  /\ lastCall = "input"
  /\ \E i \in 1..Len(drainWindow) : ~IsFinite(drainWindow[i])

(* C4: each of the three FIFOs has 0 <= positionFrames and its valid       *)
(* window ends inside its storage; so the frames a pipe stores directly    *)
(* and commits with put() fit the capacity it reserved.                    *)
C4_FifoCapacity ==
  \A b \in BufferNames :
    /\ pipe.buf[b].positionFrames >= 0
    /\ pipe.buf[b].frameCount >= 0
    /\ endIndex(pipe.buf[b]) <= Len(pipe.buf[b].vector)

(* The RateTransposer has filled its output FIFO to the last sample of     *)
(* the storage.                                                            *)
C4_Witness ==
  /\ lastCall = "input"
  /\ LET f == pipe.buf[pipe.transposer.outputBuffer]
     IN f.frameCount > 0 /\ endIndex(f) = Len(f.vector)

(* C5: frameCount is the frames put minus the frames consumed and never    *)
(* negative; receive(n) consumes min(max(n, 0), frameCount) frames and     *)
(* advances the read cursor by as many.                                    *)
C5_FifoAlgebra ==
  /\ fifo.frameCount = fifoPut - fifoConsumed
  /\ fifo.frameCount >= 0
  /\ fifoOp.op = "receive" =>
       LET consumed == Min(Max(fifoOp.count, 0), fifoOp.before.frameCount)
       IN /\ fifo.frameCount = fifoOp.before.frameCount - consumed
          /\ fifo.positionFrames = fifoOp.before.positionFrames + consumed

(* receive(n) with n above the frameCount of a FIFO that holds frames. *)
C5_Witness ==
  /\ fifoOp.op = "receive"
  /\ fifoOp.before.frameCount > 0
  /\ fifoOp.count > fifoOp.before.frameCount
  /\ fifoOp.before.positionFrames > 0

(* C6: the valid window holds, in order, the frames put and not yet        *)
(* received; extract(output, offset, count) inside the window returns      *)
(* frames offset .. offset + count - 1 of them and changes nothing.        *)
C6_WindowIsQueue ==
  /\ ValidWindow(fifo) = FramesToSamples(fifoQueue)
  /\ fifoOp.op = "extract" =>
       /\ fifoOp.output =
            FramesToSamples(SubSeq(fifoQueue, fifoOp.offset + 1,
                                   fifoOp.offset + fifoOp.count))
       /\ fifo = fifoOp.before

(* An extract() at an offset, after the window has been moved both by a    *)
(* reallocation and by a rewind in place.                                  *)
C6_Witness ==
  /\ fifoOp.op = "extract"
  /\ fifoOp.offset >= 1
  /\ fifoOp.count >= 1
  /\ fifoMoved = {"grow", "rewind"}

(* C7: receiveSamples(output, count) on a FIFO holding fewer than count    *)
(* frames writes the frames it holds, leaves the rest of output as         *)
(* supplied, and consumes the frames it held.                              *)
C7_ShortfallUntouched ==
  (fifoOp.op = "receiveSamples" /\ fifoOp.before.frameCount < fifoOp.count) =>
    LET held == CHANNELS * fifoOp.before.frameCount
    IN /\ SubSeq(fifoOp.output, 1, held) = ValidWindow(fifoOp.before)
       /\ SubSeq(fifoOp.output, held + 1, Len(fifoOp.output))
            = SubSeq(fifoOp.supplied, held + 1, Len(fifoOp.supplied))
       /\ fifo.frameCount = 0

(* C8: every candidate offset the search evaluates, and the offset it      *)
(* returns, lies in [0, seekLength).                                       *)
C8_OffsetsInSeekRange ==
  LET offset == IF seek.done THEN seek.bestOffset ELSE seek.tempOffset
  IN 0 <= offset /\ offset < seekCase.seekLength

(* C9: no input frame the Stretch or the RateTransposer has read lay       *)
(* before the read cursor or past the last frame of its input FIFO.        *)
C9_ReadsInsideWindow ==
  /\ pipe.stretch.readMin >= 0
  /\ pipe.stretch.readOver <= 0
  /\ pipe.transposer.readMin >= 0
  /\ pipe.transposer.readOver <= 0

(* C10: process() on a Stretch that is not primed and holds fewer than     *)
(* overlapLength input frames changes neither FIFO and primes nothing;     *)
(* with at least overlapLength frames it primes: the first overlapLength   *)
(* frames go to midBuffer, once; a primed Stretch is not primed again, and *)
(* no Stretch is primed twice without clear() or setParameters() between.  *)
C10_PrimingOnce ==
  [][/\ stretcher'.stretch.primings <= 1
     /\ stretchOp'.op = "process" =>
          LET s == stretcher.stretch
              t == stretcher'.stretch
              inB == stretcher.buf[s.inputBuffer]
              outB == stretcher.buf[s.outputBuffer]
              inA == stretcher'.buf[s.inputBuffer]
              outA == stretcher'.buf[s.outputBuffer]
          IN /\ (~s.midBufferInitialized /\ inB.frameCount < s.overlapLength) =>
                  (inA = inB /\ outA = outB /\ t = s)
             /\ (~s.midBufferInitialized /\ inB.frameCount >= s.overlapLength) =>
                  /\ t.midBufferInitialized
                  /\ t.primings = 1
                  /\ t.iterations = s.iterations =>
                       /\ inA.frameCount = inB.frameCount - s.overlapLength
                       /\ ValidWindow(inA) =
                            SubSeq(ValidWindow(inB), CHANNELS * s.overlapLength + 1,
                                   CHANNELS * inB.frameCount)
                       /\ t.midBuffer =
                            SubSeq(ValidWindow(inB), 1, CHANNELS * s.overlapLength)
                       /\ outA = outB
             /\ s.midBufferInitialized =>
                  (t.midBufferInitialized /\ t.primings = s.primings)]_vars

(* A process() call on a primed Stretch whose input held at least          *)
(* overlapLength frames: it was primed once, before.                       *)
C10_Witness ==
  /\ stretchOp.op = "process"
  /\ stretchOp.primedBefore
  /\ stretchOp.framesBefore >= stretcher.stretch.overlapLength
  /\ stretcher.stretch.primings = 1

(* C11: a Stretch is either uninitialized or steady.  A primed Stretch     *)
(* stays primed through process() calls, tempo writes and feeds; clear(),  *)
(* setParameters() and SoundTouch.clear() leave it uninitialized.  After   *)
(* SoundTouch.clear() the three FIFOs hold no frame, their read cursors    *)
(* are 0, and the storage of each is as long as it was.                    *)
C11_TwoStates ==
  [][/\ (/\ stretcher.stretch.midBufferInitialized
         /\ stretchOp'.op \in {"process", "tempo", "feed"}) =>
          stretcher'.stretch.midBufferInitialized
     /\ stretchOp'.op \in {"clear", "setParameters", "clearAll"} =>
          ~stretcher'.stretch.midBufferInitialized
     /\ stretchOp'.op = "clearAll" =>
          \A b \in BufferNames :
            /\ stretcher'.buf[b].frameCount = 0
            /\ stretcher'.buf[b].positionFrames = 0
            /\ Len(stretcher'.buf[b].vector) = Len(stretcher.buf[b].vector)]_vars

(* SoundTouch.clear() was called on a primed Stretch whose input FIFO held *)
(* frames.                                                                 *)
C11_Witness ==
  /\ stretchOp.op = "clearAll"
  /\ stretchOp.primedBefore
  /\ stretchOp.framesBefore > 0
  /\ ~stretcher.stretch.midBufferInitialized
  /\ Len(stretcher.buf[stretcher.stretch.inputBuffer].vector) > 0

(* C12: every iteration of Stretch.process() appends overlapLength frames, *)
(* the cross-fade of midBuffer with the input frames at the chosen offset, *)
(* and then the seekWindowLength - 2 * overlapLength frames of the input   *)
(* window at offsets offset + overlapLength and up, unchanged (none when   *)
(* that count is not positive).  A process() call so grows the output FIFO *)
(* by a whole multiple of the frames of one iteration, and on return a     *)
(* primed Stretch holds fewer than sampleReq input frames.                 *)
C12_IterationAllOrNothing ==
  [][stretchOp'.op = "process" =>
       LET s == stretcher.stretch
           t == stretcher'.stretch
           inB == stretcher.buf[s.inputBuffer]
           outB == stretcher.buf[s.outputBuffer]
           inA == stretcher'.buf[s.inputBuffer]
           outA == stretcher'.buf[s.outputBuffer]
           ovl == s.overlapLength
           nonOverlap == s.seekWindowLength - 2 * ovl
           perIteration == ovl + Max(nonOverlap, 0)
           first == Len(s.log) + 1
           Channel(k) == 1 - (k % CHANNELS)
           Frame(k) == (k - 1) \div CHANNELS
           OutAt(e, k) == outA.vector[startIndex(outA) + CHANNELS * e.outCount + k]
           InAt(e, frame, k) ==
             Rd(inB.vector, CHANNELS * (e.inPosition + frame) + Channel(k))
           MidAt(j, k) ==
             IF j > first
               THEN InAt(t.log[j - 1],
                         t.log[j - 1].offset + s.seekWindowLength - ovl + Frame(k), k)
               ELSE IF s.midBufferInitialized THEN s.midBuffer[k]
               ELSE ValidWindow(inB)[k]
       IN /\ outA.frameCount - outB.frameCount
               = (Len(t.log) - Len(s.log)) * perIteration
          /\ t.midBufferInitialized => inA.frameCount < t.sampleReq
          /\ \A j \in first..Len(t.log) :
               LET e == t.log[j]
               IN /\ e.outCount = outB.frameCount + (j - first) * perIteration
                  /\ e.offset + ovl >= 0
                  /\ e.offset + s.seekWindowLength - ovl <= e.inCount
                  /\ \A k \in 1..(CHANNELS * ovl) :
                       OutAt(e, k) =
                         QAdd(QMul(InAt(e, e.offset + Frame(k), k),
                                   Q(Frame(k), ovl)),
                              QMul(MidAt(j, k), Q(ovl - Frame(k), ovl)))
                  /\ \A k \in 1..(CHANNELS * nonOverlap) :
                       OutAt(e, CHANNELS * ovl + k) =
                         InAt(e, e.offset + ovl + Frame(k), k)]_vars

(* C13 as claimed: at the end of every iteration the read cursor of the    *)
(* input advances by nominalSkip + skipFract rounded to the nearest        *)
(* integer, and skipFract becomes the sum less the advance.                *)
C13_AdvanceIsRounded ==
  \A j \in 1..Len(pipe.stretch.log) :
    LET e == pipe.stretch.log[j]
        sum == QAdd(e.nominalSkip, e.skipBefore)
    IN /\ e.advanced = QFloor(QAdd(sum, HalfQ))
       /\ e.skipAfter = QSub(sum, I(e.advanced))

(* C13, amended: at the end of every iteration the read cursor of the      *)
(* input advances by the floor of nominalSkip + skipFract (the largest     *)
(* integer not above it), and skipFract becomes the sum less the advance,  *)
(* a value in [0, 1).                                                      *)
C13_AdvanceIsFloor ==
  \A j \in 1..Len(pipe.stretch.log) :
    LET e == pipe.stretch.log[j]
        sum == QAdd(e.nominalSkip, e.skipBefore)
    IN /\ e.advanced = QFloor(sum)
       /\ e.skipAfter = QSub(sum, I(e.advanced))
       /\ ~QLess(e.skipAfter, I(0))
       /\ QLess(e.skipAfter, OneQ)

(* An iteration ran whose sum had a fractional part of one half or more:   *)
(* the floor and the nearest integer differ.                               *)
C13_Witness ==
  \E j \in 1..Len(pipe.stretch.log) :
    LET e == pipe.stretch.log[j]
    IN /\ ~QLess(e.skipAfter, HalfQ)
       /\ e.advanced = QFloor(QAdd(e.nominalSkip, e.skipBefore))

(* C14: after k iterations since the last tempo write, the frames the     *)
(* advances consumed plus skipFract are k * nominalSkip; skipFract is at   *)
(* most 1 in absolute value; and no advance was clamped: the input FIFO    *)
(* held at least overlapSkip frames and the read cursor moved by all of    *)
(* them.                                                                   *)
C14_TimingExact ==
  /\ QAdd(I(pipe.stretch.advancedSinceTempo), pipe.stretch.skipFract)
       = QMul(I(pipe.stretch.iterationsSinceTempo), pipe.stretch.nominalSkip)
  /\ ~QLess(OneQ, QAbs(pipe.stretch.skipFract))
  /\ \A j \in 1..Len(pipe.stretch.log) :
       /\ pipe.stretch.log[j].inCount >= pipe.stretch.log[j].overlapSkip
       /\ pipe.stretch.log[j].advanced = pipe.stretch.log[j].overlapSkip

(* Iterations ran since the last tempo write, a tempo write among several, *)
(* and a fraction is carried.                                              *)
C14_Witness ==
  /\ pipe.stretch.iterationsSinceTempo >= 2
  /\ pipe.stretch.tempoWrites >= 2
  /\ pipe.stretch.skipFract # I(0)

(* C15 as claimed: at a fixed rate the frames a RateTransposer has put out *)
(* do not depend on how the stream was split into process() calls: they    *)
(* are the frames a new RateTransposer of that rate puts out when it gets  *)
(* the frames processed so far as one block.                               *)
C15_SplitIndependent ==
  LET tr == transposing.transposer
      processed == transposeFed - transposing.buf[tr.inputBuffer].frameCount
      whole == TransposerProcess(TransposeFed(NewTransposer(tr.rate), 0, processed))
  IN ValidWindow(transposing.buf[tr.outputBuffer])
       = ValidWindow(whole.buf[tr.outputBuffer])

(* C15, amended: at a fixed rate the frames a RateTransposer has put out   *)
(* are, in order, the frames a new RateTransposer of that rate puts out    *)
(* when it gets the frames processed so far as one block, except that the  *)
(* last frame of the one-block output may not have been put out yet.       *)
C15_SplitIsPrefix ==
  LET tr == transposing.transposer
      processed == transposeFed - transposing.buf[tr.inputBuffer].frameCount
      whole == ValidWindow(TransposerProcess(
                 TransposeFed(NewTransposer(tr.rate), 0, processed)).buf[tr.outputBuffer])
      split == ValidWindow(transposing.buf[tr.outputBuffer])
  IN /\ Len(whole) - Len(split) \in {0, CHANNELS}
     /\ split = SubSeq(whole, 1, Len(split))

(* The whole stream went through in more than one process() call, the last *)
(* of them with the phase between two input frames and more than one frame *)
(* to process.                                                             *)
C15_Witness ==
  /\ transposeOp.op = "process"
  /\ transposeOp.framesBefore \in 2..(MaxTransposeFrames - 2)
  /\ transposeFed = MaxTransposeFrames
  /\ transposing.buf[transposing.transposer.inputBuffer].frameCount = 0
  /\ transposing.transposer.rate \notin {OneQ, << 2, 1 >>, << 3, 1 >>, << 1, 2 >>, << 1, 4 >>}
  /\ transposing.buf[transposing.transposer.outputBuffer].frameCount > 1

(* C16: RateTransposer.process() leaves no frame in its input FIFO,        *)
(* whatever the rate and the phase carried; called with an empty input     *)
(* FIFO it changes nothing: no FIFO, no phase, no previous sample.         *)
C16_ConsumesAllInput ==
  [][transposeOp'.op = "process" =>
       /\ transposing'.buf[transposing.transposer.inputBuffer].frameCount = 0
       /\ transposing.buf[transposing.transposer.inputBuffer].frameCount = 0 =>
            transposing' = transposing]_vars

(* process() was called with an empty input FIFO on a RateTransposer that  *)
(* carries a phase from the frames it consumed before.                     *)
C16_Witness ==
  /\ transposeOp.op = "process"
  /\ transposeOp.framesBefore = 0
  /\ transposeFed > 1
  /\ transposing.transposer.slopeCount # I(0)
  /\ transposing.buf[transposing.transposer.outputBuffer].frameCount > 0

(* C17: in every state of a SoundTouch the pipe its process() runs first   *)
(* reads the input FIFO and writes the intermediate FIFO, the pipe it runs *)
(* second reads the intermediate FIFO and writes the output FIFO, and the  *)
(* first pipe is the Stretch exactly when the effective rate is above 1.   *)
C17_WiringFollowsRate ==
  LET stretchFirst == QGreater(combiner.rate, OneQ)
      first == IF stretchFirst THEN combiner.stretch ELSE combiner.transposer
      second == IF stretchFirst THEN combiner.transposer ELSE combiner.stretch
  IN /\ first.inputBuffer = "input"
     /\ first.outputBuffer = "intermediate"
     /\ second.inputBuffer = "intermediate"
     /\ second.outputBuffer = "output"

(* After the second write or feed, the last a write of rate or pitch: the  *)
(* effective rate is above 1 and the Stretch is the first pipe.            *)
C17_Witness ==
  /\ combinerOp.op \in {"rate", "pitch"}
  /\ combinerCalls >= 2
  /\ combiner.stretch.inputBuffer = "input"
  /\ combiner.transposer.outputBuffer = "output"
  /\ QGreater(combiner.rate, OneQ)

(* C18: a write of rate, tempo or pitch re-points the FIFO references of   *)
(* the two pipes only when it changes whether the effective rate is above  *)
(* 1; otherwise the four references are as they were.  No write changes a  *)
(* FIFO: storage, read cursor and frame count of all three stay.           *)
C18_WritesMoveNoFrame ==
  [][combinerOp'.op \in {"rate", "tempo", "pitch"} =>
       /\ QGreater(combiner'.rate, OneQ) = QGreater(combiner.rate, OneQ) =>
            /\ combiner'.stretch.inputBuffer = combiner.stretch.inputBuffer
            /\ combiner'.stretch.outputBuffer = combiner.stretch.outputBuffer
            /\ combiner'.transposer.inputBuffer = combiner.transposer.inputBuffer
            /\ combiner'.transposer.outputBuffer = combiner.transposer.outputBuffer
       /\ combiner'.buf = combiner.buf]_vars

(* A write made the Stretch the first pipe while the intermediate FIFO     *)
(* held frames the RateTransposer had put there.                           *)
C18_Witness ==
  /\ combinerOp.op \in {"rate", "pitch"}
  /\ combiner.stretch.inputBuffer = "input"
  /\ combiner.buf["intermediate"].frameCount > 0

(* C19: in a process() call with input whose parameters are those of the   *)
(* processed block before, the parameter push leaves sequenceMs,           *)
(* seekWindowMs, seekWindowLength, seekLength, nominalSkip, skipFract and  *)
(* sampleReq of the Stretch, the rate of the RateTransposer and the four   *)
(* buffer references as they were, and the tempo setter does not run.  In  *)
(* every push, each of the three writes changes those values of the        *)
(* Stretch only when the effective tempo it computes differs from the one  *)
(* before by more than 1e-10, and the RateTransposer's rate only when the  *)
(* effective rate does.                                                    *)
C19_SteadyPushIsInert ==
  [][(lastCall' = "input" /\ calls' = calls + 1) =>
       LET Derived(st) ==
             << st.stretch.sequenceMs, st.stretch.seekWindowMs,
                st.stretch.seekWindowLength, st.stretch.seekLength,
                st.stretch.nominalSkip, st.stretch.skipFract,
                st.stretch.sampleReq, st.stretch.tempoWrites >>
           Wiring(st) ==
             << st.stretch.inputBuffer, st.stretch.outputBuffer,
                st.transposer.inputBuffer, st.transposer.outputBuffer >>
           OnlyWhen(a, b) ==
             /\ Derived(b) # Derived(a) => hasSignificantChange(b.tempo, a.tempo)
             /\ b.transposer.rate # a.transposer.rate =>
                  hasSignificantChange(b.rate, a.rate)
       IN Bind(ParametersAt(scenario.programme, calls, 1),
            LAMBDA parameters :
              Bind2(SoundTouchSetRate(pipe, parameters.rate),
                    ApplyParameters(pipe, parameters),
                LAMBDA rateSet, pushed :
                  /\ OnlyWhen(pipe, rateSet)
                  /\ OnlyWhen(rateSet, SoundTouchSetTempo(rateSet, parameters.tempo))
                  /\ OnlyWhen(SoundTouchSetTempo(rateSet, parameters.tempo), pushed)
                  /\ pipe'.stretch.tempoWrites = pushed.stretch.tempoWrites
                  /\ pipe'.transposer.rate = pushed.transposer.rate
                  /\ Wiring(pipe') = Wiring(pushed)
                  /\ (/\ calls > 0
                      /\ ParametersAt(scenario.programme, calls - 1, 1) = parameters) =>
                       /\ Derived(pushed) = Derived(pipe)
                       /\ pushed.transposer.rate = pipe.transposer.rate
                       /\ Wiring(pushed) = Wiring(pipe)))]_vars

(* Blocks were processed under steady parameters with a fraction of a      *)
(* frame carried in skipFract: the only tempo writes are the constructor's *)
(* and the first push's.                                                   *)
C19_Witness ==
  /\ lastCall = "input"
  /\ calls >= 15
  /\ Len(scenario.programme) = 1
  /\ pipe.stretch.tempoWrites = 2
  /\ pipe.stretch.iterations >= 2
  /\ pipe.stretch.skipFract # I(0)

(* C20: with rate = tempo = 1 and a constant pitch ratio r other than 1,   *)
(* the frames process() has appended to the output FIFO after N input      *)
(* frames differ from N by no more than one latency: sampleReq +           *)
(* overlapLength of the Stretch, the largest over the pitch ratios played, *)
(* whatever N and r.                                                       *)
C20_OutputTracksInput ==
  LET Ratio(sc) ==
        QMul(sc.programme[1].parameters.pitch,
             PowerOfTwo(sc.programme[1].parameters.pitchSemitones))
      Constant(sc) ==
        /\ Len(sc.programme) = 1
        /\ sc.programme[1].parameters.rate = OneQ
        /\ sc.programme[1].parameters.tempo = OneQ
        /\ Ratio(sc) # OneQ
      Latency(sc) ==
        Bind(StretchSetTempo(NewStretch(SampleRate), QDiv(OneQ, Ratio(sc))),
             LAMBDA s : s.sampleReq + s.overlapLength)
  IN Constant(scenario) =>
       \E sc \in Scenarios :
         /\ Constant(sc)
         /\ \A other \in Scenarios : Constant(other) => Latency(other) <= Latency(sc)
         /\ Abs(RENDER_QUANTUM_FRAMES * calls - pipe.appended) <= Latency(sc)

(* More input frames than the latency have been fed at a pitch ratio other *)
(* than 1, and the Stretch has run three iterations or more.               *)
C20_Witness ==
  /\ Len(scenario.programme) = 1
  /\ scenario.programme[1].parameters.rate = OneQ
  /\ scenario.programme[1].parameters.pitchSemitones # 0
  /\ lastCall = "input"
  /\ calls >= 19
  /\ pipe.stretch.iterations >= 3
  /\ pipe.appended > 8 * RENDER_QUANTUM_FRAMES

(* C21: with one input block per call and constant rate, tempo and pitch,  *)
(* each of the three FIFOs holds no more than the data in flight: what the *)
(* Stretch asks for before it runs (sampleReq + overlapLength) and one     *)
(* block stretched by the largest ratio, 4; and its backing storage is no  *)
(* longer than twice that, however many blocks have been processed.        *)
C21_MemoryBounded ==
  Len(scenario.programme) = 1 =>
    Bind(pipe.stretch.sampleReq + pipe.stretch.overlapLength
           + 4 * RENDER_QUANTUM_FRAMES,
      LAMBDA inFlight :
        \A b \in BufferNames :
          /\ pipe.buf[b].frameCount <= inFlight
          /\ Len(pipe.buf[b].vector) <= 2 * CHANNELS * inFlight)

(* C22: no FIFO operation shortens the backing storage; the storage grows  *)
(* only in a call whose request (the frames held plus the frames to add,   *)
(* or the capacity asked for) is larger than the storage, and a request    *)
(* that fits in the storage leaves its length as it is, also when the      *)
(* frames held must be moved to offset 0 to make room; put() changes the   *)
(* frame count alone.                                                      *)
C22_StorageNeverShrinks ==
  LET before == fifoOp.before
      requested ==
        CASE fifoOp.op = "putSamples" ->
               before.frameCount + (IF fifoOp.count >= 0 THEN fifoOp.count ELSE 2)
          [] fifoOp.op = "ensureCapacity" -> fifoOp.count
          [] fifoOp.op = "ensureAdditionalCapacity" -> before.frameCount + fifoOp.count
          [] OTHER -> 0
  IN /\ Len(fifo.vector) >= Len(before.vector)
     /\ Len(fifo.vector) > Len(before.vector)
          => CHANNELS * requested > Len(before.vector)
     /\ CHANNELS * requested <= Len(before.vector)
          => Len(fifo.vector) = Len(before.vector)
     /\ \A n \in 0..MaxFifoFrames : FifoPut(fifo, n).vector = fifo.vector

(* putSamples() on a FIFO whose storage had room for the request only      *)
(* after its frames were moved to offset 0; earlier the storage has grown  *)
(* with frames in it.                                                      *)
C22_Witness ==
  /\ fifoOp.op = "putSamples"
  /\ fifoOp.count > 0
  /\ fifoOp.before.positionFrames > 0
  /\ fifoOp.before.frameCount > 0
  /\ CHANNELS * (fifoOp.before.frameCount + fifoOp.count) <= Len(fifoOp.before.vector)
  /\ endIndex(fifoOp.before) + CHANNELS * fifoOp.count > Len(fifoOp.before.vector)
  /\ Len(fifo.vector) = Len(fifoOp.before.vector)
  /\ fifo.positionFrames = 0
  /\ "grow" \in fifoMoved

(* C23: whatever the sample rate and the overlap setting, overlapLength is *)
(* a multiple of 8 and at least 16 frames: the largest multiple of 8 not   *)
(* above sampleRate * overlapMs / 1000, or 16 when that product is below   *)
(* 16.                                                                     *)
C23_OverlapLengthGrid ==
  /\ windows.overlapLength % 8 = 0
  /\ windows.overlapLength >= 16
  /\ windows.overlapLength =
       8 * (Max(16, (windows.sampleRate * windows.overlapMs) \div 1000) \div 8)
  /\ Len(windows.midBuffer) = CHANNELS * windows.overlapLength

(* setParameters() has set a sample rate and an overlap whose product is   *)
(* neither a whole number of frames nor, floored, a multiple of 8.         *)
C23_Witness ==
  /\ windowsOp.op = "setParameters"
  /\ (windows.sampleRate * windows.overlapMs) % 1000 # 0
  /\ windows.overlapLength < (windows.sampleRate * windows.overlapMs) \div 1000

(* C24: in auto mode sequenceMs and seekWindowMs are the rounded values of *)
(* the lines through (0.25, 125) and (4, 50), and through (0.25, 25) and   *)
(* (4, 15), held at the end values outside [0.25, 4]; a tempo write that   *)
(* does not lower the tempo raises neither of them, and one that does not  *)
(* raise the tempo lowers neither.                                         *)
C24_WindowsFollowTempo ==
  LET OnLine(ms, t, atLow, atTop) ==
        \* 2 * |ms - (atLow + (t - 1/4) * (atTop - atLow) / (4 - 1/4))| <= 1
        ~QGreater(QAbs(QSub(I(ms),
                   QAdd(I(atLow),
                        QMul(QSub(t, << 1, 4 >>), Q(4 * (atTop - atLow), 15))))),
                  HalfQ)
      Auto(ms, t, atLow, atTop) ==
        /\ ~QGreater(t, << 1, 4 >>) => ms = atLow
        /\ ~QLess(t, << 4, 1 >>) => ms = atTop
        /\ (QGreater(t, << 1, 4 >>) /\ QLess(t, << 4, 1 >>)) => OnLine(ms, t, atLow, atTop)
  IN /\ windows.autoSeqSetting => Auto(windows.sequenceMs, windows.tempo, 125, 50)
     /\ windows.autoSeekSetting => Auto(windows.seekWindowMs, windows.tempo, 25, 15)
     /\ (windowsOp.op = "tempo" /\ windows.autoSeqSetting /\ windows.autoSeekSetting) =>
          /\ ~QLess(windows.tempo, windowsOp.tempo) =>
               /\ windows.sequenceMs <= windowsOp.sequenceMs
               /\ windows.seekWindowMs <= windowsOp.seekWindowMs
          /\ ~QGreater(windows.tempo, windowsOp.tempo) =>
               /\ windows.sequenceMs >= windowsOp.sequenceMs
               /\ windows.seekWindowMs >= windowsOp.seekWindowMs

(* A tempo write in auto mode from one tempo inside (0.25, 4) to a higher  *)
(* one has shortened both windows.                                         *)
C24_Witness ==
  /\ windowsOp.op = "tempo"
  /\ windows.autoSeqSetting
  /\ windows.autoSeekSetting
  /\ QGreater(windowsOp.tempo, << 1, 4 >>)
  /\ QGreater(windows.tempo, windowsOp.tempo)
  /\ QLess(windows.tempo, << 4, 1 >>)
  /\ windows.sequenceMs < windowsOp.sequenceMs
  /\ windows.seekWindowMs < windowsOp.seekWindowMs

(* C25: every process() call with input returns true with a full output   *)
(* block; the RateTransposer has then consumed all of its input, the       *)
(* primed Stretch has left its loop with fewer than sampleReq frames of    *)
(* input, and each iteration of that loop has taken overlapSkip >= 1       *)
(* frames from the input, so the loop's condition fails after finitely     *)
(* many iterations.                                                        *)
C25_ProcessCompletes ==
  /\ lastCall = "input" =>
       /\ ret = TRUE
       /\ Len(leftOut) = RENDER_QUANTUM_FRAMES
       /\ Len(rightOut) = RENDER_QUANTUM_FRAMES
       /\ pipe.buf[pipe.transposer.inputBuffer].frameCount = 0
       /\ pipe.stretch.midBufferInitialized =>
            pipe.buf[pipe.stretch.inputBuffer].frameCount < pipe.stretch.sampleReq
  /\ \A k \in 1..Len(pipe.stretch.log) :
       /\ pipe.stretch.log[k].overlapSkip >= 1
       /\ pipe.stretch.log[k].advanced = pipe.stretch.log[k].overlapSkip

(* A call with input after which the Stretch has iterated four times or    *)
(* more behind or before a RateTransposer that changes the rate.           *)
C25_Witness ==
  /\ lastCall = "input"
  /\ pipe.rate # OneQ
  /\ Len(pipe.stretch.log) >= 4
  /\ pipe.buf["output"].frameCount > 0

(* C26: a process() call with input interleaves the block (sample i of the *)
(* left channel, then sample i of the right channel, or of the left one    *)
(* again when the input is mono), puts exactly the block's 128 frames into *)
(* the input FIFO, runs SoundTouch.process() once, and takes from the      *)
(* output FIFO the frames it held, but no more than 128.                   *)
C26_OneBlockOneStep ==
  [][lastCall' = "input" =>
       Bind3(InputChannels(scenario, calls),
             pipe'.buf["input"],
             pipe.buf["output"].frameCount + pipe'.appended - pipe.appended,
         LAMBDA input, inB, produced :
           /\ \A i \in 1..RENDER_QUANTUM_FRAMES :
                /\ inputInterleaved'[2 * i - 1] = input[1][i]
                /\ inputInterleaved'[2 * i] = input[Len(input)][i]
           /\ inB.frameCount + pipe'.taken - pipe.taken
                = pipe.buf["input"].frameCount + RENDER_QUANTUM_FRAMES
           /\ inB.frameCount >= RENDER_QUANTUM_FRAMES =>
                SubSeq(ValidWindow(inB),
                       CHANNELS * (inB.frameCount - RENDER_QUANTUM_FRAMES) + 1,
                       CHANNELS * inB.frameCount) = inputInterleaved'
           /\ (inB.frameCount = 0 /\ pipe'.transposer.inputBuffer = "input") =>
                /\ pipe'.transposer.prevSampleL = input[1][RENDER_QUANTUM_FRAMES]
                /\ pipe'.transposer.prevSampleR = input[Len(input)][RENDER_QUANTUM_FRAMES]
           /\ pipe'.steps = pipe.steps + 1
           /\ produced - pipe'.buf["output"].frameCount
                = Min(RENDER_QUANTUM_FRAMES, produced))]_vars

(* A call on a mono stream has left more than one block in the input FIFO  *)
(* and has taken frames from the output FIFO.                              *)
C26_Witness ==
  /\ lastCall = "input"
  /\ scenario.layout = "mono"
  /\ pipe.buf["input"].frameCount > RENDER_QUANTUM_FRAMES
  /\ pipe.steps = calls
  /\ Len(drainWindow) > 0

(* C27: whatever has been written to rate, tempo and pitch, the effective  *)
(* rate is the rate last written times the pitch last written and the      *)
(* effective tempo the tempo last written divided by that pitch (1 for a   *)
(* parameter never written); with rate = tempo = 1 their product is 1.     *)
C27_EffectiveDecomposition ==
  /\ combiner.rate = QMul(combinerOp.written.rate, combinerOp.written.pitch)
  /\ combiner.tempo = QDiv(combinerOp.written.tempo, combinerOp.written.pitch)
  /\ (combinerOp.written.rate = OneQ /\ combinerOp.written.tempo = OneQ) =>
       QMul(combiner.rate, combiner.tempo) = OneQ

(* A tempo write after a pitch write and a rate write. *)
C27_Witness ==
  /\ combinerOp.op = "tempo"
  /\ combinerOp.written.pitch # OneQ
  /\ combinerOp.written.rate # OneQ
  /\ combiner.tempo # combinerOp.value

(* C28: with rate = tempo = pitch = 1 and finite samples, the frames a     *)
(* call drains from the output FIFO are consecutive frames of the input    *)
(* stream, the same delay d behind for all of them, except the first       *)
(* overlapLength frames the pipeline ever emits (the priming cross-fade).  *)
C28_IdentityAtUnity ==
  (/\ Len(scenario.programme) = 1
   /\ scenario.programme[1].parameters = DefaultParameters
   /\ scenario.dirt \in {"clean", "swell"}
   /\ lastCall = "input") =>
    Bind2(Len(drainWindow) \div CHANNELS,
          pipe.appended - pipe.buf["output"].frameCount
            - Len(drainWindow) \div CHANNELS,
      LAMBDA drained, emittedBefore :
        \E d \in 0..(pipe.stretch.sampleReq + pipe.stretch.overlapLength) :
          \A j \in 1..drained :
            emittedBefore + j > pipe.stretch.overlapLength =>
              /\ drainWindow[CHANNELS * j - 1]
                   = LeftSample(scenario, emittedBefore + j - 1 + d)
              /\ drainWindow[CHANNELS * j]
                   = RightSample(scenario, emittedBefore + j - 1 + d))

(* C29: parameters are stored per tab. Handling updateParams for a tab     *)
(* leaves the entry of every other tab as it was, sends a paramsUpdate to  *)
(* that tab and to no other, and stores the message's params for the tab;  *)
(* a getParams of a tab received after an updateParams was accepted for it *)
(* is answered with the params of the last updateParams accepted for it.   *)
C29_PerTabStorage ==
  /\ backgroundOp.op = "updateParams" =>
       /\ \A t \in Tabs \ {backgroundOp.tabId} :
            /\ t \in DOMAIN tabParams <=> t \in DOMAIN backgroundOp.tabParamsBefore
            /\ t \in DOMAIN tabParams => tabParams[t] = backgroundOp.tabParamsBefore[t]
            /\ sent[t] = backgroundOp.sentBefore[t]
       /\ tabParams[backgroundOp.tabId] = accepted[backgroundOp.tabId]
       /\ Len(sent[backgroundOp.tabId])
            = Len(backgroundOp.sentBefore[backgroundOp.tabId]) + 1
  /\ (/\ backgroundOp.op = "getParams"
      /\ backgroundOp.tabId \in DOMAIN backgroundOp.acceptedBefore) =>
       backgroundOp.reply = << backgroundOp.acceptedBefore[backgroundOp.tabId] >>

(* C30: once an isEnabled has been received, every media element in the    *)
(* document that is connected has its gains set, or ramping for at most    *)
(* the fade time, to bypass 0 and effect 1 when the isEnabled received     *)
(* last is true and to bypass 1 and effect 0 when it is false.             *)
C30_GainsFollowIsEnabled ==
  \A e \in Elements :
    (received # << >> /\ elements[e].inDocument /\ elements[e].processed) =>
      Bind2(elements[e].bypassGain, elements[e].effectGain,
        LAMBDA bypass, effect :
          /\ bypass.target = IF received[Len(received)] THEN ZeroSample ELSE OneQ
          /\ effect.target = IF received[Len(received)] THEN OneQ ELSE ZeroSample
          /\ QAdd(bypass.target, effect.target) = OneQ
          /\ bypass.end - bypass.start <= FadeTimeMs
          /\ effect.end - effect.start <= FadeTimeMs)

(* C32: no frame is received from the intermediate FIFO by the pipe that   *)
(* put it there: every frame a pipe takes from it has passed through the   *)
(* other pipe and through no pipe twice, whatever writes of rate, tempo    *)
(* and pitch came while frames waited.                                     *)
C32_EachPipeOnce == combinerHeld.reread = 0

(* C33: after every sequence of writes of rate, tempo and pitch the tempo  *)
(* of the Stretch is within FLOAT_EPSILON of the effective tempo of the    *)
(* SoundTouch and the rate of the RateTransposer within FLOAT_EPSILON of   *)
(* its effective rate.                                                     *)
C33_PipesHoldEffective ==
  /\ ~hasSignificantChange(tuned.stretch.tempo, tuned.tempo)
  /\ ~hasSignificantChange(tuned.transposer.rate, tuned.rate)

(* C34: at rate 1 the frames a new RateTransposer has put out are one zero *)
(* frame and then the frames of the stream it has processed, unchanged and *)
(* in order, however the stream was split into process() calls: all of the *)
(* N frames processed, or all but the last, which is then held as the      *)
(* previous sample.                                                        *)
C34_UnityIsOneFrameDelay ==
  transposing.transposer.rate = OneQ =>
    Bind2(transposeFed
            - transposing.buf[transposing.transposer.inputBuffer].frameCount,
          ValidWindow(transposing.buf[transposing.transposer.outputBuffer]),
      LAMBDA processed, out :
        /\ Len(out) \in IF processed = 0 THEN {0}
                        ELSE {CHANNELS * processed, CHANNELS * (processed + 1)}
        /\ \A k \in 1..(Len(out) \div CHANNELS) :
             << out[CHANNELS * k - 1], out[CHANNELS * k] >>
               = IF k = 1 THEN << ZeroSample, ZeroSample >>
                 ELSE TransposeSamples(k - 2))

(* At rate 1 the whole stream went through in several process() calls, the *)
(* last of them with one frame, which is held and not yet put out.         *)
C34_Witness ==
  /\ transposing.transposer.rate = OneQ
  /\ transposeOp.op = "process"
  /\ transposeOp.framesBefore = 1
  /\ transposeFed = MaxTransposeFrames
  /\ transposing.buf[transposing.transposer.outputBuffer].frameCount = transposeFed

(* C35: when a getOrInitTabParams() call that waited for the storage       *)
(* completes for a tab for which an updateParams was accepted in the       *)
(* meantime, the tab's entry is the params of that updateParams.           *)
C35_UpdateSurvivesInitialisation ==
  (/\ backgroundOp.op = "resumed"
   /\ backgroundOp.tabId \in DOMAIN accepted) =>
    tabParams[backgroundOp.tabId] = accepted[backgroundOp.tabId]

(* C36: when the first thing to happen after tabs.onRemoved of a tab is    *)
(* the completion of a getOrInitTabParams() call that was waiting for the  *)
(* storage on behalf of that tab, the background still holds no tabParams  *)
(* entry and no tabHost entry of the tab.                                  *)
C36_RemovedTabHasNoEntry ==
  [][(/\ backgroundOp.op = "removed"
      /\ backgroundOp'.op = "resumed"
      /\ backgroundOp'.tabId = backgroundOp.tabId) =>
       /\ backgroundOp.tabId \notin DOMAIN tabParams'
       /\ backgroundOp.tabId \notin DOMAIN tabHost']_vars

(* C37: when loadInitialParams() completes after a paramsUpdate has been   *)
(* received (this.params is set before the reply to getParams arrives),    *)
(* with the reply of a getParams that the background answered after it had *)
(* waited for the storage (default hz and semitons: pitch 0), this.params  *)
(* stays what the paramsUpdate made it.                                    *)
C37_UpdateSurvivesInitialLoad ==
  [][(/\ ~loaded /\ loaded'
      /\ params # << >>
      /\ params'[1].pitch = 0) => params' = params]_vars

(* C38: createMediaElementSource() is called at most once for each media   *)
(* element.                                                                *)
C38_OneSourceAttempt == \A e \in Elements : elements[e].attempts <= 1

=============================================================================
